---- MODULE Spec2Model ----
(***************************************************************************)
(* GitHub-to-Jira epic migration tool (jira-sync.py, common.py).           *)
(*                                                                         *)
(* One run of main(): detect missing 'Scylla Components' options, scan the *)
(* repositories, build the plan, then print it or execute it in four       *)
(* passes.  The remote stores (GitHub issues, Jira issues, Jira field      *)
(* options) are state; every remote call can fail.                         *)
(*                                                                         *)
(* Text is modelled line by line.  A body is the sequence of its lines     *)
(* (Python's body.split("\n")), a line is a record                         *)
(*     [k |-> kind, t |-> text, h |-> digest]                              *)
(* and a digest is the ideal (collision-free) SHA-256 of a body,           *)
(* [sha |-> body].  Titles, prefixes and patterns are sequences of         *)
(* one-character strings.                                                  *)
(***************************************************************************)
EXTENDS Integers, Sequences, FiniteSets, TLC

VARIABLES
    config,              \* the loaded YAML configuration
    args,                \* the parsed command line
    github,              \* GitHub: issues by url, search results, sub-issue lists
    jira,                \* Jira: issues by key, the 'Scylla Components' field
    pc,                  \* position of main() / execute_plan()
    run,                 \* number of the current process run
    missing_components,  \* main: set(find_missing_components(...))
    field_plan,          \* main: build_field_plan(...) or []
    issue_missing,       \* main: the categories that demote entries
    full_plan,           \* main: the plan assembled so far
    repo_idx,            \* main: index of the next repo to scan
    plan,                \* execute_plan: the list being executed
    pos,                 \* execute_plan: index of the next entry of the pass
    existing,            \* _execute_field_options: lower-cased option values
    created_keys,        \* execute_plan: github_ref -> created Jira key
    writes,              \* log of the remote writes of all runs, in order
    stdout,              \* the plans printed to stdout, in order
    failed,              \* a remote call of this run raised
    warnings,            \* github_refs execute_plan warned about and skipped
    prev_plan,           \* the plan the previous run assembled
    call,                \* the arguments of a function applied on its own
    result               \* what that function returned

vars == <<config, args, github, jira, pc, run, missing_components, field_plan,
          issue_missing, full_plan, repo_idx, plan, pos, existing, created_keys,
          writes, stdout, failed, warnings, prev_plan,
          call, result>>

(***************************************************************************)
(* Bounds of the model.                                                    *)
(***************************************************************************)
MaxRuns == 2
MaxVaried == 2

(***************************************************************************)
(* Generic helpers.                                                        *)
(***************************************************************************)
Range(s) == {s[i] : i \in 1..Len(s)}

\* dict.get(key, default)
Get(d, key, default) == IF key \in DOMAIN d THEN d[key] ELSE default

\* d[key] = value on a dict
Put(d, key, value) == [x \in DOMAIN d \cup {key} |-> IF x = key THEN value ELSE d[x]]

RECURSIVE SeqConcat(_)
SeqConcat(ss) == IF ss = <<>> THEN <<>> ELSE Head(ss) \o SeqConcat(Tail(ss))

IsPrefix(s, t) == Len(s) <= Len(t) /\ SubSeq(t, 1, Len(s)) = s

(***************************************************************************)
(* Lines, bodies, digests.                                                 *)
(***************************************************************************)
NoHash == [sha |-> <<>>]
Txt(t) == [k |-> "txt", t |-> t, h |-> NoHash]
Blank == Txt("")
\* "Hash: <64 lowercase hex>"
HashLine(d) == [k |-> "hash", t |-> "", h |-> d]
\* "Migrated to Jira: [KEY](<jira url>/browse/KEY)"
LinkLine(key) == [k |-> "link", t |-> key, h |-> NoHash]
\* the same line after the Markdown link became a wiki link
WikiLinkLine(key) == [k |-> "wlink", t |-> key, h |-> NoHash]
\* "Migrated from GitHub issue: [url]"
FromLine(url) == [k |-> "from", t |-> url, h |-> NoHash]
\* "----"
RuleLine == [k |-> "rule", t |-> "", h |-> NoHash]
\* the text of two or more non-blank runs joined: matches no pattern
Joined == [k |-> "joined", t |-> "", h |-> NoHash]

\* Python None for a body, and the empty string ("".split("\n") == [""])
None == <<>>
EmptyStr == <<Blank>>
\* Python truthiness of a body: None and "" are falsy
Falsy(body) == body = None \/ body = EmptyStr

\* hashlib.sha256(...).hexdigest(), ideal
Sha256(s) == [sha |-> s]

compute_body_hash(body) == Sha256(IF body = None THEN EmptyStr ELSE body)

(***************************************************************************)
(* Atlassian Document Format: a description is                             *)
(*     [kind |-> "null" | "doc", content |-> <<node, ...>>]                *)
(* a node is [type |-> ..., content |-> <<run, ...>>] and a run is         *)
(*     [type |-> "text" | "hardBreak", text |-> line].                     *)
(***************************************************************************)
NullDoc == [kind |-> "null", content |-> <<>>]
TextRun(line) == [type |-> "text", text |-> line]
Paragraph(runs) == [type |-> "paragraph", content |-> runs]
RuleNode == [type |-> "rule", content |-> <<>>]
CodeBlock(runs) == [type |-> "codeBlock", content |-> runs]
Doc(nodes) == [kind |-> "doc", content |-> nodes]

IsSpace(line) == line.k = "txt" /\ line.t \in {"", " "}

\* "".join(text_parts).strip()
JoinStrip(text_parts) ==
    LET words == SelectSeq(text_parts, LAMBDA l : ~IsSpace(l))
    IN  IF words = <<>> THEN Blank
        ELSE IF Len(words) = 1 THEN words[1]
        ELSE Joined

\* the text children of a node, in order
TextParts(node) ==
    LET texts == SelectSeq(node.content, LAMBDA c : c.type = "text")
    IN  [i \in 1..Len(texts) |-> texts[i].text]

\* re.match(r"^Hash:\s+([0-9a-f]{64})$", line): the group, or NoHash
HashMatch(line) == IF line.k = "hash" THEN line.h ELSE NoHash

RECURSIVE FirstHash(_)
FirstHash(nodes) ==
    IF nodes = <<>> THEN NoHash
    ELSE IF Head(nodes).type # "paragraph" THEN FirstHash(Tail(nodes))
    ELSE LET m == HashMatch(JoinStrip(TextParts(Head(nodes))))
         IN  IF m # NoHash THEN m ELSE FirstHash(Tail(nodes))

\* common.py extract_hash_from_adf; NoHash stands for None
extract_hash_from_adf(description) ==
    IF description.kind # "doc" THEN NoHash
    ELSE FirstHash(description.content)

NoKey == ""

RECURSIVE FirstLink(_)
FirstLink(body) ==
    IF body = <<>> THEN NoKey
    ELSE IF Head(body).k = "link" THEN Head(body).t
    ELSE FirstLink(Tail(body))

\* jira-sync.py detect_jira_link; NoKey stands for None
detect_jira_link(body) == IF Falsy(body) THEN NoKey ELSE FirstLink(body)

\* one line through markdown_to_jira_wiki outside a fence: a list item
\* "- x" becomes "* x", a Markdown link becomes a wiki link
ConvertLine(line) ==
    IF line.k = "txt" /\ line.t = "- x" THEN Txt("* x")
    ELSE IF line.k = "link" THEN WikiLinkLine(line.t)
    ELSE line

markdown_to_jira_wiki(text) ==
    IF Falsy(text) THEN EmptyStr
    ELSE [i \in 1..Len(text) |-> ConvertLine(text[i])]

\* the footer hashes the converted text instead of the raw body
build_jira_description_of_converted(github_body, github_url) ==
    LET converted == markdown_to_jira_wiki(IF github_body = None THEN EmptyStr ELSE github_body)
    IN  (IF converted # EmptyStr THEN converted ELSE <<>>)
        \o <<Blank, RuleLine, FromLine(github_url), HashLine(compute_body_hash(converted))>>

build_jira_description(github_body, github_url) ==
    LET body_hash == compute_body_hash(github_body)
        converted == markdown_to_jira_wiki(IF github_body = None THEN EmptyStr ELSE github_body)
        parts == IF converted # EmptyStr THEN converted ELSE <<>>
    IN  parts \o <<Blank, RuleLine, FromLine(github_url), HashLine(body_hash)>>

\* Jira stores the wiki text it is sent and returns it as ADF: a "----" line
\* is a rule node, a blank line separates blocks, every other line is a
\* paragraph of one text run
RenderLine(line) ==
    IF IsSpace(line) THEN <<>>
    ELSE IF line.k = "rule" THEN <<RuleNode>>
    ELSE <<Paragraph(<<TextRun(line)>>)>>

JiraRender(wiki) == Doc(SeqConcat([i \in 1..Len(wiki) |-> RenderLine(wiki[i])]))

(***************************************************************************)
(* Titles and patterns.  A pattern is [re |-> kind, s |-> text]:           *)
(*   "lit"  the literal text s (re.match anchors it at position 0),        *)
(*   "tag"  the built-in default r'^\[.*?\]\s*'.                           *)
(* A github_title_strip value is a bare pattern or a list of patterns:     *)
(*   [is_list |-> BOOLEAN, items |-> <<pattern, ...>>].                    *)
(***************************************************************************)
Lit(s) == [re |-> "lit", s |-> s]
TagPattern == [re |-> "tag", s |-> <<>>]
Bare(p) == [is_list |-> FALSE, items |-> <<p>>]
List(ps) == [is_list |-> TRUE, items |-> ps]

\* jira-sync.py _as_list
as_list(value) == IF value.is_list THEN value.items ELSE <<value.items[1]>>

RECURSIVE SkipSpaces(_, _)
\* the first index >= i of title that holds no space (Len + 1 when none)
SkipSpaces(title, i) ==
    IF i <= Len(title) /\ title[i] = " " THEN SkipSpaces(title, i + 1) ELSE i

\* str.lstrip()
LStrip(title) == SubSeq(title, SkipSpaces(title, 1), Len(title))

RECURSIVE RStrip(_)
\* str.rstrip()
RStrip(title) ==
    IF title # <<>> /\ title[Len(title)] = " "
    THEN RStrip(SubSeq(title, 1, Len(title) - 1))
    ELSE title

\* str.strip()
Strip(title) == RStrip(LStrip(title))

\* m.end() of re.match(pattern, title), or -1 when there is no match
MatchEnd(pattern, title) ==
    IF pattern.re = "lit"
    THEN IF IsPrefix(pattern.s, title) THEN Len(pattern.s) ELSE -1
    ELSE IF title # <<>> /\ title[1] = "[" /\ \E j \in 2..Len(title) : title[j] = "]"
         THEN LET close == CHOOSE j \in 2..Len(title) :
                               /\ title[j] = "]"
                               /\ \A i \in 2..(j - 1) : title[i] # "]"
              IN  SkipSpaces(title, close + 1) - 1
         ELSE -1

\* re.sub(pattern, '', title) for a pattern anchored at the start
ReSub(pattern, title) ==
    LET e == MatchEnd(pattern, title)
    IN  IF e >= 0 THEN SubSeq(title, e + 1, Len(title)) ELSE title

RECURSIVE strip_title(_, _)
\* jira-sync.py strip_title, over the list as_list gives
strip_title(title, patterns) ==
    IF patterns = <<>> THEN title
    ELSE strip_title(Strip(ReSub(Head(patterns), title)), Tail(patterns))

\* the result of resolve_rule; raised is the KeyError of a rule without "match"
Resolved(prefix, components, patterns, cleaned) ==
    [raised |-> FALSE, prefix |-> prefix, components |-> components,
     patterns |-> patterns, cleaned |-> cleaned]
ResolveRaised ==
    [raised |-> TRUE, prefix |-> <<>>, components |-> "", patterns |-> <<>>,
     cleaned |-> <<>>]

\* the loop that lets the last matching rule win
RECURSIVE LastMatch(_, _, _, _)
LastMatch(rules, title, repo_config, repo_patterns) ==
    IF rules = <<>>
    THEN Resolved(repo_config.jira_prefix, repo_config.scylla_components,
                  repo_patterns, title)
    ELSE LET rule == Head(rules)
             rest == LastMatch(Tail(rules), title, repo_config, repo_patterns)
         IN  IF "match" \notin DOMAIN rule THEN ResolveRaised
             ELSE IF rest.raised THEN rest
             ELSE IF \E i \in 1..Len(Tail(rules)) :
                         MatchEnd(Tail(rules)[i].match.issue_title, title) >= 0
             THEN rest
             ELSE IF MatchEnd(rule.match.issue_title, title) < 0 THEN rest
             ELSE Resolved(Get(rule, "jira_prefix", repo_config.jira_prefix),
                           Get(rule, "scylla_components", repo_config.scylla_components),
                           as_list(Get(rule, "github_title_strip", List(repo_patterns))),
                           LStrip(SubSeq(title, MatchEnd(rule.match.issue_title, title) + 1,
                                         Len(title))))

RECURSIVE FirstMatch(_, _, _, _)
\* the for loop of resolve_rule over the rules that are left
FirstMatch(rules, title, repo_config, repo_patterns) ==
    IF rules = <<>>
    THEN Resolved(repo_config.jira_prefix, repo_config.scylla_components,
                  repo_patterns, title)
    ELSE LET rule == Head(rules)
         IN  IF "match" \notin DOMAIN rule THEN ResolveRaised
             ELSE LET e == MatchEnd(rule.match.issue_title, title)
                  IN  IF e >= 0
                      THEN Resolved(Get(rule, "jira_prefix", repo_config.jira_prefix),
                                    Get(rule, "scylla_components",
                                        repo_config.scylla_components),
                                    as_list(Get(rule, "github_title_strip",
                                                List(repo_patterns))),
                                    LStrip(SubSeq(title, e + 1, Len(title))))
                      ELSE FirstMatch(Tail(rules), title, repo_config, repo_patterns)

\* jira-sync.py resolve_rule
resolve_rule(title, repo_config, global_config) ==
    LET default_patterns ==
            as_list(Get(global_config, "github_title_strip", List(<<TagPattern>>)))
        repo_patterns ==
            as_list(Get(repo_config, "github_title_strip", List(default_patterns)))
    IN  FirstMatch(Get(repo_config, "rules", <<>>), title, repo_config, repo_patterns)

(***************************************************************************)
(* The update checker.                                                     *)
(***************************************************************************)
\* a (action, reason) result, or the re-raised HTTPError
Checked(action, reason) == [raised |-> FALSE, action |-> action, reason |-> reason]
CheckRaised == [raised |-> TRUE, action |-> "", reason |-> ""]

\* the comparison with "update" and "skip" exchanged
check_hash_swapped(stored_hash, current_hash) ==
    IF stored_hash = NoHash THEN Checked("skip", "Already migrated (no hash)")
    ELSE IF stored_hash = current_hash
    THEN Checked("update", "Description changed (hash mismatch)")
    ELSE Checked("skip", "Already migrated (hash matches)")

\* an absent hash treated as a mismatch
check_hash_nohash_updates(stored_hash, current_hash) ==
    IF stored_hash = current_hash THEN Checked("skip", "Already migrated (hash matches)")
    ELSE Checked("update", "Description changed (hash mismatch)")

\* _check_update_needed after the issue was fetched
check_hash(stored_hash, current_hash) ==
    IF stored_hash = NoHash THEN Checked("skip", "Already migrated (no hash)")
    ELSE IF stored_hash = current_hash
    THEN Checked("skip", "Already migrated (hash matches)")
    ELSE Checked("update", "Description changed (hash mismatch)")

\* the 404 raised again like any other HTTP error
check_update_needed_404_raises(github_body, jira_key, mgr) ==
    IF jira_key \notin DOMAIN mgr.issues THEN CheckRaised
    ELSE IF mgr.issues[jira_key].status = "500" THEN CheckRaised
    ELSE check_hash(extract_hash_from_adf(mgr.issues[jira_key].description),
                    compute_body_hash(github_body))

\* jira-sync.py _check_update_needed; mgr.get_issue answers from the Jira
\* state: a 404 for a key Jira does not hold, another HTTP error, or the issue
check_update_needed(github_body, jira_key, mgr) ==
    IF jira_key \notin DOMAIN mgr.issues THEN Checked("skip", "Jira issue not found")
    ELSE IF mgr.issues[jira_key].status = "500" THEN CheckRaised
    ELSE check_hash(extract_hash_from_adf(mgr.issues[jira_key].description),
                    compute_body_hash(github_body))

(***************************************************************************)
(* Scanning.  An item is [url, title, body, state, issue_type]; issue_type *)
(* "" stands for None.                                                     *)
(***************************************************************************)
Item(gh, url) ==
    [url |-> url, title |-> gh.issues[url].title, body |-> gh.issues[url].body,
     state |-> gh.issues[url].state, issue_type |-> gh.issues[url].issue_type]

\* scan_repo: the sub_results of one epic
SubResults(gh, epic) ==
    LET subs == gh.subs[epic.url]
    IN  [i \in 1..Len(subs) |->
            [issue |-> Item(gh, subs[i]),
             jira_key |-> detect_jira_link(gh.issues[subs[i]].body)]]

\* the scan that keeps closed epics that were never migrated
RECURSIVE ScanEpicsKeepClosed(_, _)
ScanEpicsKeepClosed(gh, epics) ==
    IF epics = <<>> THEN <<>>
    ELSE LET epic == Item(gh, Head(epics))
         IN  <<[epic |-> epic, jira_key |-> detect_jira_link(epic.body),
                sub_issues |-> SubResults(gh, epic)]>>
             \o ScanEpicsKeepClosed(gh, Tail(epics))

RECURSIVE ScanEpics(_, _)
\* scan_repo: the for loop over the fetched epics
ScanEpics(gh, epics) ==
    IF epics = <<>> THEN <<>>
    ELSE LET epic == Item(gh, Head(epics))
             epic_jira_key == detect_jira_link(epic.body)
         IN  IF epic.state = "CLOSED" /\ epic_jira_key = NoKey
             THEN ScanEpics(gh, Tail(epics))
             ELSE <<[epic |-> epic, jira_key |-> epic_jira_key,
                     sub_issues |-> SubResults(gh, epic)]>>
                  \o ScanEpics(gh, Tail(epics))

\* jira-sync.py scan_repo
scan_repo(repo_config, gh) == ScanEpics(gh, gh.epics[repo_config.github])

(***************************************************************************)
(* The category gap detector.                                              *)
(***************************************************************************)
\* Python's order of the category strings ('' < 'CA' < 'ca' < 'cb')
CompOrder == <<"", "CA", "ca", "cb">>

\* sorted(S) for a set of category strings
Sorted(S) == SelectSeq(CompOrder, LAMBDA c : c \in S)

Reverse(s) == [i \in 1..Len(s) |-> s[Len(s) + 1 - i]]

\* str.lower() on a category string
Lower(value) ==
    CASE value \in {"CA", "Ca"} -> "ca"
      [] value \in {"CB"} -> "cb"
      [] OTHER -> value

\* find_missing_components: the values the configuration refers to
RuleComponents(repo) ==
    LET rules == Get(repo, "rules", <<>>)
    IN  {rules[j].scylla_components :
            j \in {j \in 1..Len(rules) : "scylla_components" \in DOMAIN rules[j]}}

Needed(repos) ==
    UNION {{repos[i].scylla_components} \cup RuleComponents(repos[i]) :
              i \in 1..Len(repos)}

\* the difference taken the wrong way round: nothing is ever missing
find_missing_components_none(repos, mgr) == <<>>

\* jira-sync.py find_missing_components
find_missing_components(repos, mgr) ==
    IF ~mgr.field.found THEN <<>>
    ELSE IF ~mgr.field.contexts THEN <<>>
    ELSE Sorted(Needed(repos) \ mgr.field.values)

FieldEntry(value) ==
    [action |-> "create_field_option", field |-> "Scylla Components", value |-> value]

\* the set iterated without sorted(): its order changes from process to process
build_field_plan_unsorted(missing) ==
    LET order == IF run = 1 THEN Sorted(missing)
                 ELSE Reverse(Sorted(missing))
    IN  [i \in 1..Len(order) |-> FieldEntry(order[i])]

\* jira-sync.py build_field_plan
build_field_plan(missing) ==
    LET order == Sorted(missing)
    IN  [i \in 1..Len(order) |-> FieldEntry(order[i])]

(***************************************************************************)
(* The plan.                                                               *)
(***************************************************************************)
\* the owner/repo group of r"https://github\.com/([^/]+/[^/]+)/"
UrlSlug(url) ==
    CASE url \in {"o/r1/issues/1", "o/r1/issues/2", "o/r1/issues/4"} -> "o/r1"
      [] url \in {"o/r2/issues/3"} -> "o/r2"
      [] OTHER -> "o/rx"

RECURSIVE FirstRepo(_, _)
FirstRepo(repos, repo_slug) ==
    IF repos = <<>> THEN <<>>
    ELSE IF Head(repos).github = repo_slug THEN <<Head(repos)>>
    ELSE FirstRepo(Tail(repos), repo_slug)

\* jira-sync.py repo_config_for_url: <<repo>>, or <<>> for None
repo_config_for_url(github_url, title, cfg) == FirstRepo(cfg.repos, UrlSlug(github_url))

\* the entry of an item that carries a Jira key
MigratedEntry(checked, item, jira_key) ==
    IF checked.action = "update"
    THEN [action |-> checked.action, github_ref |-> item.url, github_title |-> item.title,
          jira_key |-> jira_key, reason |-> checked.reason, github_body |-> item.body]
    ELSE [action |-> checked.action, github_ref |-> item.url, github_title |-> item.title,
          jira_key |-> jira_key, reason |-> checked.reason]

\* the entry demoted whether or not its category is missing
CreateAction_always_fail(components, missing) == "fail"

\* the entry never demoted
CreateAction_never_fail(components, missing) == "create"

\* "create", or "fail: missing Scylla Components option '<components>'"
CreateAction(components, missing) ==
    IF components \in missing THEN "fail" ELSE "create"

\* the create entry of an item without a Jira key, before parent linkage
CreateEntry(item, jira_type, project, rr, missing) ==
    [action |-> CreateAction(rr.components, missing),
     github_ref |-> item.url, github_title |-> item.title, github_body |-> item.body,
     jira_issue_type |-> jira_type, jira_project |-> project,
     scylla_components |-> rr.components,
     summary |-> rr.prefix \o <<" ">> \o strip_title(rr.cleaned, rr.patterns)]

\* entry["jira_parent"] = ... / entry["jira_parent_github"] = ...
WithParent(entry, epic, epic_jira_key) ==
    IF epic_jira_key # NoKey
    THEN Put(entry, "jira_parent", epic_jira_key)
    ELSE Put(entry, "jira_parent_github", epic.url)

Built(entries) == [raised |-> FALSE, plan |-> entries]
BuildRaised == [raised |-> TRUE, plan |-> <<>>]

\* the update check, or the unconditional skip
CheckOrSkip(body, jira_key, mgr, skip_update_check) ==
    IF ~skip_update_check THEN check_update_needed(body, jira_key, mgr)
    ELSE Checked("skip", "Already migrated")

\* build_plan: the body of the loop over entry["sub_issues"]
SubPlan(sub_entry, epic, epic_jira_key, cfg, missing, mgr, skip_update_check) ==
    LET sub == sub_entry.issue
        sub_jira_key == sub_entry.jira_key
    IN  IF sub_jira_key # NoKey
        THEN LET checked == CheckOrSkip(sub.body, sub_jira_key, mgr, skip_update_check)
             IN  IF checked.raised THEN BuildRaised
                 ELSE Built(<<MigratedEntry(checked, sub, sub_jira_key)>>)
        ELSE LET effective_config == repo_config_for_url(sub.url, sub.title, cfg)
             IN  IF effective_config = <<>> THEN Built(<<>>)
                 ELSE LET rr == resolve_rule(sub.title, effective_config[1], cfg)
                          jira_type == Get(Get(cfg, "type_mapping", <<>>), sub.issue_type,
                                           Get(cfg, "default_worktype", "Task"))
                      IN  IF rr.raised THEN BuildRaised
                          ELSE Built(<<WithParent(
                                   CreateEntry(sub, jira_type, cfg.jira_project, rr,
                                               missing),
                                   epic, epic_jira_key)>>)

RECURSIVE BuildSubs(_, _, _, _, _, _, _)
BuildSubs(subs, epic, epic_jira_key, cfg, missing, mgr, skip_update_check) ==
    IF subs = <<>> THEN Built(<<>>)
    ELSE LET one == SubPlan(Head(subs), epic, epic_jira_key, cfg, missing,
                            mgr, skip_update_check)
         IN  IF one.raised THEN BuildRaised
             ELSE LET rest == BuildSubs(Tail(subs), epic, epic_jira_key, cfg,
                                        missing, mgr, skip_update_check)
                  IN  IF rest.raised THEN BuildRaised ELSE Built(one.plan \o rest.plan)

\* the children's entries placed before their epic's entry
GroupOrder_children_first(epic_entries, sub_entries) == sub_entries \o epic_entries

\* the entries of one group, in plan order
GroupOrder(epic_entries, sub_entries) == epic_entries \o sub_entries

\* build_plan: the body of the loop over scan_results
GroupPlan(entry, cfg, missing, mgr, skip_update_check) ==
    LET epic == entry.epic
        epic_jira_key == entry.jira_key
        subs == BuildSubs(entry.sub_issues, epic, epic_jira_key, cfg, missing,
                          mgr, skip_update_check)
    IN  IF epic_jira_key # NoKey
        THEN LET checked == CheckOrSkip(epic.body, epic_jira_key, mgr, skip_update_check)
             IN  IF checked.raised \/ subs.raised THEN BuildRaised
                 ELSE Built(GroupOrder(<<MigratedEntry(checked, epic, epic_jira_key)>>,
                                       subs.plan))
        ELSE LET effective_config == repo_config_for_url(epic.url, epic.title, cfg)
             IN  IF effective_config = <<>> THEN Built(<<>>)
                 ELSE LET rr == resolve_rule(epic.title, effective_config[1], cfg)
                      IN  IF rr.raised \/ subs.raised THEN BuildRaised
                          ELSE Built(GroupOrder(
                                   <<CreateEntry(epic, "Epic", cfg.jira_project, rr,
                                                 missing)>>,
                                   subs.plan))

RECURSIVE build_plan(_, _, _, _, _, _)
\* jira-sync.py build_plan
build_plan(scan_results, repo_config, cfg, missing, mgr, skip_update_check) ==
    IF scan_results = <<>> THEN Built(<<>>)
    ELSE LET one == GroupPlan(Head(scan_results), cfg, missing, mgr,
                              skip_update_check)
         IN  IF one.raised THEN BuildRaised
             ELSE LET rest == build_plan(Tail(scan_results), repo_config, cfg,
                                         missing, mgr, skip_update_check)
                  IN  IF rest.raised THEN BuildRaised ELSE Built(one.plan \o rest.plan)

\* jira-sync.py _plan_for_display
plan_for_display(p) ==
    [i \in 1..Len(p) |-> [k \in DOMAIN p[i] \ {"github_body"} |-> p[i][k]]]

(***************************************************************************)
(* The inputs of a run: configurations, command lines, GitHub and Jira     *)
(* states.  Every input has a list of values whose first is its value in   *)
(* the base scenario; an initial state varies at most MaxVaried inputs,     *)
(* the execution mode (plan only, --execute-all, --execute <url>) apart.   *)
(***************************************************************************)
U1 == "o/r1/issues/1"
U2 == "o/r1/issues/2"
U3 == "o/r2/issues/3"
U4 == "o/r1/issues/4"
U9 == "o/rx/issues/9"
K1 == "P-1"
K2 == "P-2"
K3 == "P-3"

EmptyDict == [k \in {} |-> ""]

\* the key Jira gives to its n-th new issue
NewKey(n) == "P-" \o ToString(10 + n)

Rule_B == [match |-> [issue_title |-> Lit(<<"B">>)],
           jira_prefix |-> <<"R", "b">>, scylla_components |-> "cb"]
Rule_B_empty == [match |-> [issue_title |-> Lit(<<"B">>)], scylla_components |-> ""]
Rule_no_match == [jira_prefix |-> <<"R", "b">>]

Repo1(rules) == [github |-> "o/r1", jira_prefix |-> <<"R", "1">>,
                 scylla_components |-> "ca", rules |-> rules]
Repo2 == [github |-> "o/r2", jira_prefix |-> <<"R", "2">>, scylla_components |-> "ca"]

Cfg(rules, type_mapping) ==
    [jira_project |-> "P", repos |-> <<Repo1(rules), Repo2>>,
     type_mapping |-> type_mapping, default_worktype |-> "Task"]

ConfigChoices ==
    <<Cfg(<<Rule_B>>, [t \in {"Bug"} |-> "Bug"]),
      Cfg(<<Rule_B>>, [t \in {"Bug", "Epic"} |-> t]),
      Cfg(<<Rule_B_empty>>, [t \in {"Bug"} |-> "Bug"]),
      Cfg(<<Rule_no_match>>, [t \in {"Bug"} |-> "Bug"])>>

\* --repo, and --execute-all / --execute <url>
RepoChoices == <<"", "o/r1", "o/zz">>
ModeChoices ==
    <<[execute_all |-> TRUE, execute |-> ""], [execute_all |-> FALSE, execute |-> ""],
      [execute_all |-> FALSE, execute |-> U2]>>
FlagChoices == <<FALSE, TRUE>>

\* the 'Scylla Components' field of Jira
Field(values) == [found |-> TRUE, contexts |-> TRUE, values |-> values]
FieldChoices ==
    <<Field({"ca", "cb"}), Field({"cb"}), Field({"CA", "cb"}), Field({}),
      [found |-> FALSE, contexts |-> FALSE, values |-> {}],
      [found |-> TRUE, contexts |-> FALSE, values |-> {}]>>

StateChoices == <<"OPEN", "CLOSED">>
TitleChoices == <<<<"F">>, <<"B", " ", "x">>, <<"[", "t", "]", " ", "F">>>>
TypeChoices == <<"Bug", "Epic", "">>
\* the body an item was filed with
BodyChoices == <<<<Txt("a")>>, <<HashLine(Sha256(<<Txt("z")>>))>>, <<Txt("- x")>>, EmptyStr>>
\* how the item was migrated before the run: not at all, or to a Jira
\* issue that now ...
MigChoices == <<"none", "matches", "differs", "no_hash", "code_block", "gone", "error">>
\* the same for the first sub-issue
SubMigChoices == <<"none", "matches", "differs", "gone">>
SubsChoices == <<<<U2, U4>>, <<>>, <<U2>>, <<U9, U2>>>>
\* the epic of the second repo
ThirdChoices == <<"differs", "absent", "none", "error">>

\* _update_github_body: the body with the migration line appended
AppendLink(body, jira_key) == body \o <<Blank, LinkLine(jira_key)>>

\* the body of an item that was filed with `body` and migrated to jira_key
BodyOf(body, mig, jira_key) == IF mig = "none" THEN body ELSE AppendLink(body, jira_key)

\* a Jira issue
Issue(status, description, summary, issuetype, components, parent) ==
    [status |-> status, description |-> description, summary |-> summary,
     issuetype |-> issuetype, project |-> "P", components |-> components,
     parent |-> parent]

\* the Jira issue an item filed with `body` at url was migrated to
OldIssue(body, url, mig, jira_key) ==
    LET desc ==
            CASE mig = "matches" ->
                     JiraRender(build_jira_description(AppendLink(body, jira_key), url))
              [] mig = "differs" -> JiraRender(build_jira_description(body, url))
              [] mig = "code_block" ->
                     Doc(<<Paragraph(<<TextRun(Txt("a"))>>),
                           CodeBlock(<<TextRun(HashLine(Sha256(<<Txt("z")>>)))>>)>>)
              [] OTHER -> NullDoc
    IN  Issue(IF mig = "error" THEN "500" ELSE "ok", desc, <<>>, "Task", "", "")

\* the Jira issues that exist before the run
OldIssues(migs) ==
    LET keys == {k \in DOMAIN migs : migs[k].mig \notin {"none", "gone"}}
    IN  [k \in keys |-> OldIssue(migs[k].body, migs[k].url, migs[k].mig, k)]

GhIssue(title, body, state, issue_type) ==
    [title |-> title, body |-> body, state |-> state, issue_type |-> issue_type]

\* the index tuples over lists of the given sizes in which at most k indices
\* are not 1, the index of the base scenario's value
RECURSIVE Picks(_, _)
Picks(sizes, k) ==
    IF sizes = <<>> THEN {<<>>}
    ELSE {<<1>> \o rest : rest \in Picks(Tail(sizes), k)}
         \cup (IF k = 0 THEN {}
               ELSE {<<i>> \o rest : i \in 2..Head(sizes),
                                     rest \in Picks(Tail(sizes), k - 1)})

\* the sizes of the input lists, in the order Init reads them
InputSizes ==
    <<Len(ConfigChoices), Len(RepoChoices), Len(FlagChoices), Len(FlagChoices),
      Len(FieldChoices), Len(StateChoices), Len(TitleChoices), Len(BodyChoices),
      Len(MigChoices), Len(TypeChoices), Len(StateChoices), Len(SubMigChoices),
      Len(SubsChoices), Len(ThirdChoices)>>

\* the values of a run's own variables when the process starts
RunStart ==
    /\ pc = "start"
    /\ missing_components = {}
    /\ field_plan = <<>>
    /\ issue_missing = {}
    /\ full_plan = <<>>
    /\ repo_idx = 0
    /\ plan = <<>>
    /\ pos = 0
    /\ existing = {}
    /\ created_keys = EmptyDict
    /\ stdout = <<>>
    /\ failed = FALSE
    /\ warnings = <<>>

Init ==
    /\ run = 1
    /\ writes = <<>>
    /\ prev_plan = <<>>
    /\ RunStart
    /\ call = <<>>
    /\ result = <<>>
    /\ \E md \in 1..Len(ModeChoices), x \in Picks(InputSizes, MaxVaried) :
        LET c == x[1]
            rp == x[2]
            cc == x[3]
            su == x[4]
            fl == x[5]
            s1 == x[6]
            t1 == x[7]
            b1 == x[8]
            m1 == x[9]
            ty2 == x[10]
            s2 == x[11]
            m2 == x[12]
            sb == x[13]
            th == x[14]
            mig3 == IF ThirdChoices[th] = "absent" THEN "none" ELSE ThirdChoices[th]
            migs == [k \in {K1, K2, K3} |->
                        CASE k = K1 -> [mig |-> MigChoices[m1], url |-> U1,
                                        body |-> BodyChoices[b1]]
                          [] k = K2 -> [mig |-> SubMigChoices[m2], url |-> U2,
                                        body |-> <<Txt("a")>>]
                          [] OTHER -> [mig |-> mig3, url |-> U3, body |-> <<Txt("a")>>]]
        IN  /\ config = ConfigChoices[c]
            /\ args = [repo |-> RepoChoices[rp],
                       execute_all |-> ModeChoices[md].execute_all,
                       execute |-> ModeChoices[md].execute,
                       create_components |-> FlagChoices[cc],
                       skip_update_check |-> FlagChoices[su]]
            /\ github =
                 [issues |->
                    [u \in {U1, U2, U3, U4, U9} |->
                       CASE u = U1 ->
                              GhIssue(TitleChoices[t1],
                                      BodyOf(BodyChoices[b1], MigChoices[m1], K1),
                                      StateChoices[s1], "Epic")
                         [] u = U2 ->
                              GhIssue(<<"F">>,
                                      BodyOf(<<Txt("a")>>, SubMigChoices[m2], K2),
                                      StateChoices[s2], TypeChoices[ty2])
                         [] u = U3 ->
                              GhIssue(<<"F">>, BodyOf(<<Txt("a")>>, mig3, K3),
                                      "OPEN", "Epic")
                         [] OTHER -> GhIssue(<<"F">>, <<Txt("a")>>, "OPEN", "Bug")],
                  epics |->
                    [r \in {"o/r1", "o/r2"} |->
                       IF r = "o/r1"
                       THEN <<U1>> \o (IF TypeChoices[ty2] = "Epic"
                                       THEN <<U2>> ELSE <<>>)
                       ELSE IF ThirdChoices[th] = "absent" THEN <<>>
                            ELSE <<U3>>],
                  subs |->
                    [u \in {U1, U2, U3, U4, U9} |->
                       IF u = U1 THEN SubsChoices[sb] ELSE <<>>]]
            /\ jira = [issues |-> OldIssues(migs),
                       field |-> FieldChoices[fl], created |-> 0]

(***************************************************************************)
(* main().                                                                 *)
(***************************************************************************)
\* an exception nobody catches ends the process
AfterCall_swallowed(ok, next) == next

\* where the process is after a remote call: at next, or dead
AfterCall(ok, next) == IF ok THEN next ELSE "crashed"

\* main: the repos to scan (--repo)
Repos ==
    IF args.repo # ""
    THEN SelectSeq(config.repos, LAMBDA r : r.github = args.repo)
    ELSE config.repos

planVars == <<missing_components, field_plan, issue_missing, full_plan, repo_idx>>
execVars == <<plan, pos, existing, created_keys, warnings>>
envVars == <<config, args, github, jira>>
pureVars == <<call, result>>

\* main, up to the start of the scan loop
FindMissing ==
    /\ pc = "start"
    /\ UNCHANGED <<envVars, execVars, pureVars, run, writes, stdout, prev_plan>>
    /\ IF Repos = <<>>
       THEN /\ pc' = "exit1"
            /\ UNCHANGED <<planVars, failed>>
       ELSE \E ok \in BOOLEAN :
              LET missing == Range(find_missing_components(config.repos, jira))
                  create == args.create_components /\ missing # {}
              IN  /\ pc' = AfterCall(ok, "scan")
                  /\ failed' = (failed \/ ~ok)
                  /\ IF ok
                     THEN /\ missing_components' = missing
                          /\ field_plan' = IF create THEN build_field_plan(missing) ELSE <<>>
                          /\ issue_missing' = IF create THEN {} ELSE missing
                          /\ full_plan' = IF create THEN build_field_plan(missing) ELSE <<>>
                          /\ repo_idx' = 1
                     ELSE UNCHANGED planVars

\* main: one turn of the loop over repos, scan_repo and build_plan
ScanBuild ==
    /\ pc = "scan"
    /\ UNCHANGED <<envVars, execVars, pureVars, run, writes, stdout, prev_plan,
                   missing_components, field_plan, issue_missing>>
    /\ \E ok \in BOOLEAN :
         LET repo_config == Repos[repo_idx]
             scan_results == scan_repo(repo_config, github)
             built == build_plan(scan_results, repo_config, config, issue_missing, jira,
                                 args.skip_update_check)
             fine == ok /\ ~built.raised
         IN  /\ pc' = AfterCall(fine, IF repo_idx = Len(Repos) THEN "planned" ELSE "scan")
             /\ failed' = (failed \/ ~fine)
             /\ IF fine
                THEN /\ full_plan' = full_plan \o built.plan
                     /\ repo_idx' = repo_idx + 1
                ELSE UNCHANGED <<full_plan, repo_idx>>

\* the plan executed whether or not a category is missing
Dispatch_ungated ==
    /\ pc = "planned"
    /\ UNCHANGED <<envVars, planVars, pureVars, run, writes, failed, prev_plan, pos, existing,
                   created_keys, warnings>>
    /\ IF args.execute_all \/ args.execute # ""
       THEN IF args.execute # ""
            THEN LET filtered == SelectSeq(full_plan,
                                     LAMBDA e : Get(e, "github_ref", "") = args.execute)
                 IN  /\ pc' = IF filtered = <<>> THEN "exit1" ELSE "pass1"
                     /\ plan' = IF filtered = <<>> THEN plan ELSE field_plan \o filtered
                     /\ UNCHANGED stdout
            ELSE /\ pc' = "pass1"
                 /\ plan' = full_plan
                 /\ UNCHANGED stdout
       ELSE /\ stdout' = Append(stdout, plan_for_display(full_plan))
            /\ pc' = "done"
            /\ UNCHANGED plan

\* main: print the plan or execute it
Dispatch ==
    /\ pc = "planned"
    /\ UNCHANGED <<envVars, planVars, pureVars, run, writes, failed, prev_plan, pos, existing,
                   created_keys, warnings>>
    /\ IF args.execute_all \/ args.execute # ""
       THEN IF issue_missing # {}
            THEN /\ stdout' = Append(stdout, plan_for_display(full_plan))
                 /\ pc' = "exit1"
                 /\ UNCHANGED plan
            ELSE IF args.execute # ""
            THEN LET filtered == SelectSeq(full_plan,
                                     LAMBDA e : Get(e, "github_ref", "") = args.execute)
                 IN  /\ pc' = IF filtered = <<>> THEN "exit1" ELSE "pass1"
                     /\ plan' = IF filtered = <<>> THEN plan ELSE field_plan \o filtered
                     /\ UNCHANGED stdout
            ELSE /\ pc' = "pass1"
                 /\ plan' = full_plan
                 /\ UNCHANGED stdout
       ELSE /\ stdout' = Append(stdout, plan_for_display(full_plan))
            /\ pc' = "done"
            /\ UNCHANGED plan

(***************************************************************************)
(* execute_plan().                                                         *)
(***************************************************************************)
\* one remote write, as logged
Write(op, key, ref, issue_type, parent, body) ==
    [run |-> run, op |-> op, key |-> key, ref |-> ref, issue_type |-> issue_type,
     parent |-> parent, body |-> body]

\* every create entry taken in the epic pass
InPass_all_creates_first(entry, pass) ==
    CASE pass = "pass2" -> entry.action = "create"
      [] pass = "pass3" -> FALSE
      [] OTHER -> entry.action = "update"

\* the fourth pass taking every entry that carries a Jira key
InPass_update_any_migrated(entry, pass) ==
    CASE pass = "pass2" ->
             entry.action = "create" /\ Get(entry, "jira_issue_type", "") = "Epic"
      [] pass = "pass3" ->
             entry.action = "create" /\ Get(entry, "jira_issue_type", "") # "Epic"
      [] OTHER -> "jira_key" \in DOMAIN entry

\* the entries a pass of execute_plan does not skip
InPass(entry, pass) ==
    CASE pass = "pass2" ->
             entry.action = "create" /\ Get(entry, "jira_issue_type", "") = "Epic"
      [] pass = "pass3" ->
             entry.action = "create" /\ Get(entry, "jira_issue_type", "") # "Epic"
      [] OTHER -> entry.action = "update"

\* the index of the first entry at or after i the pass does not skip, or 0
NextEntry(i, pass) ==
    LET left == {j \in i..Len(plan) : InPass(plan[j], pass)}
    IN  IF left = {} THEN 0 ELSE CHOOSE j \in left : \A k \in left : j <= k

\* _execute_field_options: field_entries
FieldEntries == SelectSeq(plan, LAMBDA e : e.action = "create_field_option")

\* _execute_field_options, up to its loop
FieldOptionsBegin ==
    /\ pc = "pass1"
    /\ UNCHANGED <<envVars, planVars, pureVars, run, writes, stdout, prev_plan, plan, created_keys,
                   warnings>>
    /\ IF FieldEntries = <<>>
       THEN /\ pc' = "pass2"
            /\ pos' = 1
            /\ UNCHANGED <<existing, failed>>
       ELSE \E ok \in BOOLEAN :
              /\ failed' = (failed \/ ~ok)
              /\ pos' = 1
              /\ IF ok /\ ~(jira.field.found /\ jira.field.contexts)
                 THEN pc' = "exit1" /\ UNCHANGED existing
                 ELSE /\ pc' = AfterCall(ok, "pass1_loop")
                      /\ existing' = IF ok THEN {Lower(v) : v \in jira.field.values}
                                     ELSE existing

\* the option added whether or not it exists
NeedsOption_always(value, known) == TRUE

\* _execute_field_options: the option is not in the lower-cased set
NeedsOption(value, known) == Lower(value) \notin known

\* _execute_field_options: one turn of the loop over field_entries
FieldOptionEntry ==
    /\ pc = "pass1_loop"
    /\ UNCHANGED <<config, args, github, planVars, pureVars, run, stdout, prev_plan, plan,
                   created_keys, warnings>>
    /\ LET value == FieldEntries[pos].value
           next == IF pos = Len(FieldEntries) THEN "pass2" ELSE "pass1_loop"
       IN  IF ~NeedsOption(value, existing)
           THEN /\ pc' = next
                /\ pos' = IF pos = Len(FieldEntries) THEN 1 ELSE pos + 1
                /\ UNCHANGED <<jira, existing, writes, failed>>
           ELSE \E ok \in BOOLEAN :
                  /\ pc' = AfterCall(ok, next)
                  /\ failed' = (failed \/ ~ok)
                  /\ pos' = IF pos = Len(FieldEntries) THEN 1 ELSE pos + 1
                  /\ IF ok
                     THEN /\ jira' = [jira EXCEPT !.field.values = @ \cup {value}]
                          /\ existing' = existing \cup {Lower(value)}
                          /\ writes' = Append(writes,
                                              Write("add_option", value, "", "", "", None))
                     ELSE UNCHANGED <<jira, existing, writes>>

\* the next pass of execute_plan
PassAfter(pass) ==
    CASE pass = "pass2" -> "pass3"
      [] pass = "pass3" -> "pass4"
      [] OTHER -> "done"

\* _create_jira_issue with the digest of the converted text in the footer
Description_of_converted(entry) ==
    build_jira_description_of_converted(Get(entry, "github_body", EmptyStr), entry.github_ref)

\* _create_jira_issue / _update_jira_issue: the description of an entry
Description(entry) ==
    build_jira_description(Get(entry, "github_body", EmptyStr), entry.github_ref)

\* _create_jira_issue: Jira after jira.issue_create(fields=fields)
JiraCreated(entry, jira_key) ==
    [jira EXCEPT
        !.issues = Put(@, jira_key,
                       Issue("ok", JiraRender(Description(entry)), entry.summary,
                             entry.jira_issue_type, entry.scylla_components,
                             Get(entry, "jira_parent", ""))),
        !.created = @ + 1]

\* _update_github_body: GitHub after the PATCH
GithubPatched(github_url, jira_key) ==
    [github EXCEPT !.issues[github_url].body = AppendLink(@, jira_key)]

\* _create_jira_issue on entry; how far it gets is the outcome
CreateIssue(entry, next) ==
    \E outcome \in {"ok", "create_failed", "github_failed"} :
        LET jira_key == NewKey(jira.created + 1)
            created == Write("issue_create", jira_key, entry.github_ref,
                             entry.jira_issue_type, Get(entry, "jira_parent", ""),
                             Get(entry, "github_body", EmptyStr))
            patched == Write("github_patch", jira_key, entry.github_ref,
                             entry.jira_issue_type, "", None)
        IN  /\ pc' = AfterCall(outcome = "ok", next)
            /\ failed' = (failed \/ outcome # "ok")
            /\ IF outcome = "create_failed"
               THEN UNCHANGED <<jira, github, created_keys, writes>>
               ELSE /\ jira' = JiraCreated(entry, jira_key)
                    /\ created_keys' = Put(created_keys, entry.github_ref, jira_key)
                    /\ IF outcome = "ok"
                       THEN /\ github' = GithubPatched(entry.github_ref, jira_key)
                            /\ writes' = writes \o <<created, patched>>
                       ELSE /\ UNCHANGED github
                            /\ writes' = Append(writes, created)

\* execute_plan: a pass has no entry left
EndPass ==
    /\ pc \in {"pass2", "pass3", "pass4"}
    /\ NextEntry(pos, pc) = 0
    /\ pc' = PassAfter(pc)
    /\ pos' = 1
    /\ UNCHANGED <<envVars, planVars, pureVars, run, writes, stdout, prev_plan, plan, existing,
                   created_keys, warnings, failed>>

\* execute_plan, second pass: create the next epic
CreateEpic ==
    /\ pc = "pass2"
    /\ NextEntry(pos, pc) # 0
    /\ pos' = NextEntry(pos, pc) + 1
    /\ CreateIssue(plan[NextEntry(pos, pc)], "pass2")
    /\ UNCHANGED <<config, args, planVars, pureVars, run, stdout, prev_plan, plan, existing,
                   warnings>>

\* the child created without its parent when the epic has no key yet
ResolveParent_orphan(entry) ==
    IF "jira_parent_github" \notin DOMAIN entry THEN <<entry>>
    ELSE IF entry.jira_parent_github \in DOMAIN created_keys
    THEN <<Put(entry, "jira_parent", created_keys[entry.jira_parent_github])>>
    ELSE <<entry>>

\* execute_plan, third pass: the entry with its parent resolved, or <<>>
\* when the parent epic has no key yet
ResolveParent(entry) ==
    IF "jira_parent_github" \notin DOMAIN entry THEN <<entry>>
    ELSE IF entry.jira_parent_github \in DOMAIN created_keys
    THEN <<Put(entry, "jira_parent", created_keys[entry.jira_parent_github])>>
    ELSE <<>>

\* execute_plan, third pass: create the next sub-issue, or warn and skip it
CreateSub ==
    /\ pc = "pass3"
    /\ NextEntry(pos, pc) # 0
    /\ pos' = NextEntry(pos, pc) + 1
    /\ UNCHANGED <<config, args, planVars, pureVars, run, stdout, prev_plan, existing>>
    /\ LET i == NextEntry(pos, pc)
           resolved == ResolveParent(plan[i])
       IN  IF resolved = <<>>
           THEN /\ warnings' = Append(warnings, plan[i].github_ref)
                /\ pc' = "pass3"
                /\ UNCHANGED <<jira, github, created_keys, writes, failed, plan>>
           ELSE /\ plan' = [plan EXCEPT ![i] = resolved[1]]
                /\ CreateIssue(resolved[1], "pass3")
                /\ UNCHANGED warnings

\* jira-sync.py _update_jira_issue, from the fourth pass
UpdateIssue ==
    /\ pc = "pass4"
    /\ NextEntry(pos, pc) # 0
    /\ pos' = NextEntry(pos, pc) + 1
    /\ UNCHANGED <<config, args, github, planVars, pureVars, run, stdout, prev_plan, plan, existing,
                   created_keys, warnings>>
    /\ LET entry == plan[NextEntry(pos, pc)]
       IN  \E ok \in {b \in BOOLEAN : b => entry.jira_key \in DOMAIN jira.issues} :
             /\ pc' = AfterCall(ok, "pass4")
             /\ failed' = (failed \/ ~ok)
             /\ IF ok
                THEN /\ jira' = [jira EXCEPT !.issues[entry.jira_key].description =
                                                 JiraRender(Description(entry))]
                     /\ writes' = Append(writes,
                                         Write("update_issue", entry.jira_key,
                                               entry.github_ref, "", "",
                                               Get(entry, "github_body", EmptyStr)))
                ELSE UNCHANGED <<jira, writes>>

\* the tool is started again after it ended normally
NextRun ==
    /\ pc \in {"done", "exit1"}
    /\ run < MaxRuns
    /\ run' = run + 1
    /\ prev_plan' = full_plan
    /\ pc' = "start"
    /\ missing_components' = {}
    /\ field_plan' = <<>>
    /\ issue_missing' = {}
    /\ full_plan' = <<>>
    /\ repo_idx' = 0
    /\ plan' = <<>>
    /\ pos' = 0
    /\ existing' = {}
    /\ created_keys' = EmptyDict
    /\ stdout' = <<>>
    /\ failed' = FALSE
    /\ warnings' = <<>>
    /\ UNCHANGED <<envVars, pureVars, writes>>

Next ==
    \/ FindMissing
    \/ ScanBuild
    \/ Dispatch
    \/ FieldOptionsBegin
    \/ FieldOptionEntry
    \/ EndPass
    \/ CreateEpic
    \/ CreateSub
    \/ UpdateIssue
    \/ NextRun

Spec == Init /\ [][Next]_vars

(***************************************************************************)
(* resolve_rule on its own: a title, a repo configuration with a list of   *)
(* at most MaxRules rules, and a global configuration.                     *)
(***************************************************************************)
MaxRules == 2

\* rule patterns: literal prefixes and the bracketed tag
RulePatterns == {Lit(<<"B">>), Lit(<<"B", "u">>), Lit(<<"F">>), TagPattern}

\* the overrides a rule may carry next to its pattern
RuleOverrides ==
    {EmptyDict,
     [jira_prefix |-> <<"X">>],
     [jira_prefix |-> <<"Y">>, scylla_components |-> "cb"],
     [scylla_components |-> "CA", github_title_strip |-> Bare(Lit(<<"x">>))]}

RuleChoices ==
    {Put(o, "match", [issue_title |-> pat]) : o \in RuleOverrides, pat \in RulePatterns}
    \cup {Rule_no_match}

\* the lists of at most n rules
RECURSIVE RuleLists(_)
RuleLists(n) ==
    IF n = 0 THEN {<<>>}
    ELSE RuleLists(n - 1)
         \cup {Append(l, r) : l \in {l \in RuleLists(n - 1) : Len(l) = n - 1},
                              r \in RuleChoices}

RuleTitles ==
    {<<"B", "u", " ", " ", "x">>, <<"F">>, <<"[", "t", "]", " ", "B">>, <<" ", "B">>}

RuleRepoChoices ==
    {[github |-> "o/r1", jira_prefix |-> <<"R", "1">>, scylla_components |-> "ca"],
     [github |-> "o/r1", jira_prefix |-> <<"R", "1">>, scylla_components |-> "ca",
      github_title_strip |-> List(<<Lit(<<"y">>), TagPattern>>)]}

RuleGlobalChoices ==
    {[jira_project |-> "P"],
     [jira_project |-> "P", github_title_strip |-> Bare(Lit(<<"z">>))]}

InitRule ==
    /\ run = 1
    /\ writes = <<>>
    /\ prev_plan = <<>>
    /\ RunStart
    /\ config = ConfigChoices[1]
    /\ args = [repo |-> "", execute_all |-> FALSE, execute |-> "",
               create_components |-> FALSE, skip_update_check |-> FALSE]
    /\ github = [issues |-> EmptyDict, epics |-> EmptyDict, subs |-> EmptyDict]
    /\ jira = [issues |-> EmptyDict, field |-> FieldChoices[1], created |-> 0]
    /\ result = <<>>
    /\ \E title \in RuleTitles, rules \in RuleLists(MaxRules),
          repo \in RuleRepoChoices, global_config \in RuleGlobalChoices :
          call = [title |-> title,
                  repo_config |-> IF rules = <<>> THEN repo ELSE Put(repo, "rules", rules),
                  global_config |-> global_config]

\* one call of resolve_rule
ResolveRule ==
    /\ result = <<>>
    /\ result' = <<resolve_rule(call.title, call.repo_config, call.global_config)>>
    /\ UNCHANGED <<envVars, planVars, execVars, call, pc, run, writes, stdout, failed,
                   prev_plan>>

NextRule == ResolveRule

SpecRule == InitRule /\ [][NextRule]_vars

(***************************************************************************)
(* markdown_to_jira_wiki character by character.  A text is the sequence   *)
(* of its lines (text.split("\n")), a line a sequence of one-character     *)
(* strings; the space is the only white space.                             *)
(***************************************************************************)
\* the backtick character
Tick == "BACKTICK"

\* the least j >= from with s[j] = c, or 0
Find(s, c, from) ==
    LET at == {j \in from..Len(s) : s[j] = c}
    IN  IF at = {} THEN 0 ELSE CHOOSE j \in at : \A k \in at : j <= k

\* the least j >= from with s[j] = s[j + 1] = c, or 0
FindPair(s, c, from) ==
    LET at == {j \in from..(Len(s) - 1) : s[j] = c /\ s[j + 1] = c}
    IN  IF at = {} THEN 0 ELSE CHOOSE j \in at : \A k \in at : j <= k

\* s[i] when i is an index of s, "" otherwise
CharAt(s, i) == IF i \in 1..Len(s) THEN s[i] ELSE ""

\* the closing delimiter of the italic pattern
\* (?<!\*)\*(?!\*)(.+?)(?<!\*)\*(?!\*) opened at i, or 0
ItalicClose(s, i) ==
    LET at == {j \in (i + 2)..Len(s) :
                  s[j] = "*" /\ s[j - 1] # "*" /\ CharAt(s, j + 1) # "*"}
    IN  IF at = {} THEN 0 ELSE CHOOSE j \in at : \A k \in at : j <= k

\* where the match of an inline pattern that starts at i ends, or 0
InlineMatch(kind, s, i) ==
    CASE kind = "image" ->
             IF s[i] = "!" /\ CharAt(s, i + 1) = "["
             THEN LET j == Find(s, "]", i + 2)
                      k == Find(s, ")", j + 2)
                  IN  IF j > 0 /\ CharAt(s, j + 1) = "(" /\ k >= j + 3 THEN k ELSE 0
             ELSE 0
      [] kind = "link" ->
             IF s[i] = "["
             THEN LET j == Find(s, "]", i + 1)
                      k == Find(s, ")", j + 2)
                  IN  IF j >= i + 2 /\ CharAt(s, j + 1) = "(" /\ k >= j + 3 THEN k ELSE 0
             ELSE 0
      [] kind = "bold" ->
             IF s[i] = "*" /\ CharAt(s, i + 1) = "*"
             THEN LET j == FindPair(s, "*", i + 3) IN IF j > 0 THEN j + 1 ELSE 0
             ELSE 0
      [] kind = "strike" ->
             IF s[i] = "~" /\ CharAt(s, i + 1) = "~"
             THEN LET j == FindPair(s, "~", i + 3) IN IF j > 0 THEN j + 1 ELSE 0
             ELSE 0
      [] kind = "italic" ->
             IF s[i] = "*" /\ CharAt(s, i - 1) # "*" /\ CharAt(s, i + 1) # "*"
             THEN ItalicClose(s, i)
             ELSE 0
      [] OTHER ->
             IF s[i] = Tick
             THEN LET j == Find(s, Tick, i + 1) IN IF j >= i + 2 THEN j ELSE 0
             ELSE 0

\* the replacement of the match s[i..e]
InlineRepl(kind, s, i, e) ==
    CASE kind = "image" ->
             LET j == Find(s, "]", i + 2)
             IN  <<"!">> \o SubSeq(s, j + 2, e - 1) \o <<"!">>
      [] kind = "link" ->
             LET j == Find(s, "]", i + 1)
             IN  <<"[">> \o SubSeq(s, i + 1, j - 1) \o <<"|">>
                 \o SubSeq(s, j + 2, e - 1) \o <<"]">>
      [] kind = "bold" -> <<"*">> \o SubSeq(s, i + 2, e - 2) \o <<"*">>
      [] kind = "strike" -> <<"-">> \o SubSeq(s, i + 2, e - 2) \o <<"-">>
      [] kind = "italic" -> <<"_">> \o SubSeq(s, i + 1, e - 1) \o <<"_">>
      [] OTHER -> <<"{", "{">> \o SubSeq(s, i + 1, e - 1) \o <<"}", "}">>

\* re.sub(pattern, replacement, s) from index i on: leftmost matches, not
\* overlapping
RECURSIVE Sub(_, _, _)
Sub(kind, s, i) ==
    IF i > Len(s) THEN <<>>
    ELSE LET e == InlineMatch(kind, s, i)
         IN  IF e > 0 THEN InlineRepl(kind, s, i, e) \o Sub(kind, s, e + 1)
             ELSE <<s[i]>> \o Sub(kind, s, i + 1)

\* the italic substitution left out
convert_inline_markup_bold_kept(text) ==
    Sub("code", Sub("strike", Sub("bold", Sub("link", Sub("image", text, 1), 1), 1), 1), 1)

\* jira-sync.py _convert_inline_markup
convert_inline_markup(text) ==
    Sub("code",
        Sub("italic",
            Sub("strike", Sub("bold", Sub("link", Sub("image", text, 1), 1), 1), 1), 1), 1)

\* line.strip().startswith(the marker of three backticks)
IsFenceLine(line) == IsPrefix(<<Tick, Tick, Tick>>, Strip(line))

\* the line that opens a code block: {code:lang} or {code}
FenceOpen(line) ==
    LET code_lang == Strip(SubSeq(Strip(line), 4, Len(Strip(line))))
    IN  IF code_lang # <<>>
        THEN <<"{", "c", "o", "d", "e", ":">> \o code_lang \o <<"}">>
        ELSE <<"{", "c", "o", "d", "e", "}">>

RECURSIVE Run(_, _, _)
\* the length of the run of characters of set cs in s from index i on
Run(s, cs, i) == IF CharAt(s, i) \in cs THEN 1 + Run(s, cs, i + 1) ELSE 0

Digits == {"0", "1", "2", "3", "4", "5", "6", "7", "8", "9"}

\* n times the character c
Times(c, n) == [i \in 1..n |-> c]

\* s from index i on
From(s, i) == SubSeq(s, i, Len(s))

\* one line outside a code block: the first pattern that matches decides
ConvertOutside(line) ==
    LET hashes == Run(line, {"#"}, 1)
        indent == Run(line, {" "}, 1)
        bullet == CharAt(line, indent + 1) \in {"-", "*"}
                  /\ CharAt(line, indent + 2) = " "
        item == SkipSpaces(line, indent + 2)
        box == bullet /\ CharAt(line, item) = "[" /\ CharAt(line, item + 2) = "]"
        digits == Run(line, Digits, indent + 1)
        numbered == digits >= 1 /\ CharAt(line, indent + digits + 1) = "."
                    /\ CharAt(line, indent + digits + 2) = " "
        dashes == Run(line, {"-"}, 1)
    IN  IF hashes \in 1..6 /\ CharAt(line, hashes + 1) = " "
        THEN <<"h", ToString(hashes), ".", " ">>
             \o convert_inline_markup(From(line, SkipSpaces(line, hashes + 1)))
        ELSE IF box /\ CharAt(line, item + 1) = " "
        THEN Times("*", (indent \div 2) + 1) \o <<" ", "(", "x", ")", " ">>
             \o convert_inline_markup(From(line, SkipSpaces(line, item + 3)))
        ELSE IF box /\ CharAt(line, item + 1) \in {"x", "X"}
        THEN Times("*", (indent \div 2) + 1) \o <<" ", "(", "/", ")", " ">>
             \o convert_inline_markup(From(line, SkipSpaces(line, item + 3)))
        ELSE IF bullet
        THEN Times("*", (indent \div 2) + 1) \o <<" ">>
             \o convert_inline_markup(From(line, item))
        ELSE IF numbered
        THEN Times("#", (indent \div 2) + 1) \o <<" ">>
             \o convert_inline_markup(
                    From(line, SkipSpaces(line, indent + digits + 2)))
        ELSE IF dashes >= 3 /\ Strip(From(line, dashes + 1)) = <<>>
        THEN <<"-", "-", "-", "-">>
        ELSE convert_inline_markup(line)

\* a fence marker closes the block it opened and nothing else is kept
RECURSIVE ConvertFrom_one_line_fence(_, _)
ConvertFrom_one_line_fence(lines, in_code_block) ==
    IF lines = <<>> THEN <<>>
    ELSE LET line == Head(lines)
         IN  IF IsFenceLine(line)
             THEN <<IF in_code_block THEN <<"{", "c", "o", "d", "e", "}">>
                    ELSE FenceOpen(line)>>
                  \o ConvertFrom_one_line_fence(Tail(lines), ~in_code_block)
             ELSE <<IF in_code_block THEN line ELSE ConvertOutside(line)>>
                  \o ConvertFrom_one_line_fence(Tail(lines), FALSE)

\* markdown_to_jira_wiki: the for loop over the lines that are left
RECURSIVE ConvertFrom(_, _)
ConvertFrom(lines, in_code_block) ==
    IF lines = <<>> THEN <<>>
    ELSE LET line == Head(lines)
         IN  IF IsFenceLine(line)
             THEN <<IF in_code_block THEN <<"{", "c", "o", "d", "e", "}">>
                    ELSE FenceOpen(line)>>
                  \o ConvertFrom(Tail(lines), ~in_code_block)
             ELSE <<IF in_code_block THEN line ELSE ConvertOutside(line)>>
                  \o ConvertFrom(Tail(lines), in_code_block)

\* jira-sync.py markdown_to_jira_wiki on the lines of a text
markdown_to_jira_wiki_lines(text) ==
    IF text = <<<<>>>> THEN <<<<>>>> ELSE ConvertFrom(text, FALSE)

\* the texts converted: at most MaxLines of these lines
MaxLines == 3

LineChoices ==
    {<<"#", " ", "T", "i", "t", "l", "e">>,
     <<"-", " ", "[", " ", "]", " ", "t", "o", "d", "o">>,
     <<"*", "*", "b", "o", "l", "d", "*", "*">>,
     <<Tick, Tick, Tick>>,
     <<" ", " ", Tick, Tick, Tick, "p", "y">>,
     <<"-", " ", "x">>,
     <<"*", "i", "*">>,
     <<>>,
     <<"-", "-", "-">>,
     <<"1", ".", " ", "a">>,
     <<"~", "~", "s", "~", "~">>,
     <<Tick, "c", Tick>>,
     <<"[", "t", "]", "(", "u", ")">>,
     <<"!", "[", "a", "]", "(", "u", ")">>,
     <<" ", " ", "*", " ", "[", "x", "]", " ", "d">>,
     <<"a", " ", "*", "*", "b", "*", "*", " ", "*", "c", "*">>}

RECURSIVE TextsOf(_)
TextsOf(n) ==
    IF n = 0 THEN {<<>>}
    ELSE TextsOf(n - 1)
         \cup {Append(t, l) : t \in {t \in TextsOf(n - 1) : Len(t) = n - 1},
                              l \in LineChoices}

InitWiki ==
    /\ run = 1
    /\ writes = <<>>
    /\ prev_plan = <<>>
    /\ RunStart
    /\ config = ConfigChoices[1]
    /\ args = [repo |-> "", execute_all |-> FALSE, execute |-> "",
               create_components |-> FALSE, skip_update_check |-> FALSE]
    /\ github = [issues |-> EmptyDict, epics |-> EmptyDict, subs |-> EmptyDict]
    /\ jira = [issues |-> EmptyDict, field |-> FieldChoices[1], created |-> 0]
    /\ result = <<>>
    /\ \E text \in TextsOf(MaxLines) \ {<<>>} : call = [text |-> text]

\* one call of markdown_to_jira_wiki
ConvertText ==
    /\ result = <<>>
    /\ result' = <<markdown_to_jira_wiki_lines(call.text)>>
    /\ UNCHANGED <<envVars, planVars, execVars, call, pc, run, writes, stdout, failed,
                   prev_plan>>

NextWiki == ConvertText

SpecWiki == InitWiki /\ [][NextWiki]_vars

(***************************************************************************)
(* _execute_field_options alone, on any list of create_field_option        *)
(* entries and any set of options in Jira.                                 *)
(***************************************************************************)
MaxEntries == 3

OptionValues == {"ca", "CA", "Ca", "cb", "CB"}

\* the plans handed to the pass
OptionPlans ==
    UNION {[1..n -> {FieldEntry(v) : v \in OptionValues}] : n \in 0..MaxEntries}

\* the field in Jira: with any options, not found, or without a context
OptionFields ==
    {Field(values) : values \in SUBSET OptionValues}
    \cup {[found |-> FALSE, contexts |-> FALSE, values |-> {}],
          [found |-> TRUE, contexts |-> FALSE, values |-> {}]}

InitOptions ==
    /\ run = 1
    /\ writes = <<>>
    /\ prev_plan = <<>>
    /\ pc = "pass1"
    /\ missing_components = {}
    /\ field_plan = <<>>
    /\ issue_missing = {}
    /\ full_plan = <<>>
    /\ repo_idx = 0
    /\ pos = 0
    /\ existing = {}
    /\ created_keys = EmptyDict
    /\ stdout = <<>>
    /\ failed = FALSE
    /\ warnings = <<>>
    /\ config = ConfigChoices[1]
    /\ args = [repo |-> "", execute_all |-> TRUE, execute |-> "",
               create_components |-> TRUE, skip_update_check |-> FALSE]
    /\ github = [issues |-> EmptyDict, epics |-> EmptyDict, subs |-> EmptyDict]
    /\ result = <<>>
    /\ \E entries \in OptionPlans, field \in OptionFields :
          /\ plan = entries
          /\ jira = [issues |-> EmptyDict, field |-> field, created |-> 0]
          /\ call = [options |-> field.values]

NextOptions == FieldOptionsBegin \/ FieldOptionEntry

SpecOptions == InitOptions /\ [][NextOptions]_vars

(***************************************************************************)
(* build_jira_description and compute_body_hash alone, on two bodies.      *)
(***************************************************************************)
MaxBodyLines == 2

BodyLines ==
    {Txt("a"), Txt("- x"), Txt("* x"), Blank, HashLine(Sha256(<<Txt("z")>>)), LinkLine(K1)}

\* the bodies GitHub can hold: None, or a text of at least one line
Bodies == {None} \cup UNION {[1..n -> BodyLines] : n \in 1..MaxBodyLines}

InitDigest ==
    /\ run = 1
    /\ writes = <<>>
    /\ prev_plan = <<>>
    /\ RunStart
    /\ config = ConfigChoices[1]
    /\ args = [repo |-> "", execute_all |-> FALSE, execute |-> "",
               create_components |-> FALSE, skip_update_check |-> FALSE]
    /\ github = [issues |-> EmptyDict, epics |-> EmptyDict, subs |-> EmptyDict]
    /\ jira = [issues |-> EmptyDict, field |-> FieldChoices[1], created |-> 0]
    /\ result = <<>>
    /\ \E github_body \in Bodies, other_body \in Bodies :
          call = [github_body |-> github_body, other_body |-> other_body,
                  github_url |-> U1]

\* the description composed for each of the two bodies, and the hash the
\* update checker computes for the first
Describe ==
    /\ result = <<>>
    /\ result' = <<[description |->
                        build_jira_description(call.github_body, call.github_url),
                    other_description |->
                        build_jira_description(call.other_body, call.github_url),
                    current_hash |-> compute_body_hash(call.github_body)]>>
    /\ UNCHANGED <<envVars, planVars, execVars, call, pc, run, writes, stdout, failed,
                   prev_plan>>

NextDigest == Describe

SpecDigest == InitDigest /\ [][NextDigest]_vars

(***************************************************************************)
(* Properties.                                                             *)
(***************************************************************************)
\* the pass of execute_plan a logged write belongs to
Phase(w) ==
    CASE w.op = "add_option" -> 1
      [] w.op = "update_issue" -> 4
      [] OTHER -> IF w.issue_type = "Epic" THEN 2 ELSE 3

\* the writes of run r, in the order they happened
WritesOf(r) == SelectSeq(writes, LAMBDA w : w.run = r)

\* C1: within one run the remote writes happen pass by pass: option
\* creations, then creations of "Epic" entries (with their GitHub
\* back-references), then creations of the other entries, then description
\* updates; no write of an earlier pass follows a write of a later pass.
C1_PassOrder ==
    \A i, j \in 1..Len(writes) :
        (i < j /\ writes[i].run = writes[j].run)
            => Phase(writes[i]) <= Phase(writes[j])

\* a run that wrote in every one of the four passes
C1_Witness ==
    /\ pc = "done"
    /\ {Phase(WritesOf(run)[i]) : i \in 1..Len(WritesOf(run))} = {1, 2, 3, 4}

\* the groups fetched by the run, in fetch order
RECURSIVE Fetched(_)
Fetched(repos) ==
    IF repos = <<>> THEN <<>>
    ELSE scan_repo(Head(repos), github) \o Fetched(Tail(repos))

IsFieldEntry(e) == e.action = "create_field_option"

\* the source references of the issue entries of p, in plan order
IssueRefs(p) ==
    LET issues == SelectSeq(p, LAMBDA e : ~IsFieldEntry(e))
    IN  [i \in 1..Len(issues) |-> issues[i].github_ref]

\* s is t with some elements left out
RECURSIVE IsSubseq(_, _)
IsSubseq(s, t) ==
    IF s = <<>> THEN TRUE
    ELSE IF t = <<>> THEN FALSE
    ELSE IF Head(s) = Head(t) THEN IsSubseq(Tail(s), Tail(t))
    ELSE IsSubseq(s, Tail(t))

\* refs is nothing, or the epic of group g followed by children of g in
\* fetch order
GroupSlice(refs, g) ==
    \/ refs = <<>>
    \/ /\ Head(refs) = g.epic.url
       /\ IsSubseq(Tail(refs),
                   [i \in 1..Len(g.sub_issues) |-> g.sub_issues[i].issue.url])

\* refs is one slice per group, the groups in order
RECURSIVE GroupSlices(_, _)
GroupSlices(refs, groups) ==
    IF groups = <<>> THEN refs = <<>>
    ELSE \E n \in 0..Len(refs) :
            /\ GroupSlice(SubSeq(refs, 1, n), Head(groups))
            /\ GroupSlices(SubSeq(refs, n + 1, Len(refs)), Tail(groups))

\* C2: in the assembled plan every create_field_option entry precedes every
\* issue entry, and the issue entries are the groups' entries in fetch
\* order, each group's epic entry immediately followed by the entries of
\* its children.
C2_PlanOrder ==
    pc = "planned" =>
        /\ \A i, j \in 1..Len(full_plan) :
               (i < j /\ IsFieldEntry(full_plan[j])) => IsFieldEntry(full_plan[i])
        /\ GroupSlices(IssueRefs(full_plan), Fetched(Repos))

\* a plan with an option entry and an epic entry followed by the entries of
\* its two children
C2_Witness ==
    /\ pc = "planned"
    /\ \E i \in 1..Len(full_plan) : IsFieldEntry(full_plan[i])
    /\ \E i \in 1..Len(IssueRefs(full_plan)) :
          /\ i + 2 <= Len(IssueRefs(full_plan))
          /\ SubSeq(IssueRefs(full_plan), i, i + 2) = <<U1, U2, U4>>

\* the categories the configuration requires and Jira's option list lacks
Gaps == Needed(config.repos) \ jira.field.values

\* the option list of the field can be fetched
OptionsFetched == jira.field.found /\ jira.field.contexts

\* the issue entries of the plan had nothing been missing
RECURSIVE Ungated(_)
Ungated(repos) ==
    IF repos = <<>> THEN <<>>
    ELSE build_plan(scan_repo(Head(repos), github), Head(repos), config, {}, jira,
                    args.skip_update_check).plan \o Ungated(Tail(repos))

\* entry e is an issue entry whose effective category is c
Needs(e, c) == "scylla_components" \in DOMAIN e /\ e.scylla_components = c

ClosedUnmigrated(url) ==
    /\ github.issues[url].state = "CLOSED"
    /\ detect_jira_link(github.issues[url].body) = NoKey

\* the fetched top-level items: <<repo index, position>>
TopLevel ==
    {ik \in (1..Len(Repos)) \X (1..2) :
        ik[2] <= Len(github.epics[Repos[ik[1]].github])}

EpicAt(ik) == github.epics[Repos[ik[1]].github][ik[2]]

\* the groups that are not closed and unmigrated in which url is the epic
EpicPlaces(url) ==
    {ik \in TopLevel : ~ClosedUnmigrated(EpicAt(ik)) /\ EpicAt(ik) = url}

\* the places url has as a child in those groups
ChildPlaces(url) ==
    {ikj \in TopLevel \X (1..2) :
        /\ ~ClosedUnmigrated(EpicAt(ikj[1]))
        /\ ikj[2] <= Len(github.subs[EpicAt(ikj[1])])
        /\ github.subs[EpicAt(ikj[1])][ikj[2]] = url}

\* C4: a closed top-level item without a Jira link contributes no plan
\* entry, neither for itself nor for any of its children, migrated or not,
\* open or closed: an item has at most as many entries as it has places,
\* as epic or as child, in the other groups.  A closed top-level item with a Jira link keeps its
\* entry.
C4_ClosedGroupDrop ==
    pc = "planned" =>
        /\ \A url \in DOMAIN github.issues :
               Cardinality({i \in 1..Len(IssueRefs(full_plan)) :
                               IssueRefs(full_plan)[i] = url})
                   <= Cardinality(EpicPlaces(url)) + Cardinality(ChildPlaces(url))
        /\ \A ik \in TopLevel :
               (/\ github.issues[EpicAt(ik)].state = "CLOSED"
                /\ ~ClosedUnmigrated(EpicAt(ik)))
                   => \E i \in 1..Len(full_plan) :
                         /\ Get(full_plan[i], "github_ref", "") = EpicAt(ik)
                         /\ Get(full_plan[i], "jira_key", NoKey)
                                = detect_jira_link(github.issues[EpicAt(ik)].body)

\* a planned run over a closed unmigrated epic that has a migrated child
\* and an unmigrated one, next to a group that is planned
C4_Witness ==
    /\ pc = "planned"
    /\ full_plan # <<>>
    /\ \E ik \in TopLevel :
          /\ ClosedUnmigrated(EpicAt(ik))
          /\ \E j, k \in 1..Len(github.subs[EpicAt(ik)]) :
                /\ detect_jira_link(
                       github.issues[github.subs[EpicAt(ik)][j]].body) # NoKey
                /\ detect_jira_link(
                       github.issues[github.subs[EpicAt(ik)][k]].body) = NoKey

\* entry e is of an item that carries the key of a Jira issue that exists
CheckedEntry(e) ==
    /\ "jira_key" \in DOMAIN e
    /\ e.jira_key \in DOMAIN jira.issues

\* the hash found in the description of the Jira issue of entry e
StoredHash(e) == extract_hash_from_adf(jira.issues[e.jira_key].description)

\* the hash of the GitHub body of the item of entry e
CurrentHash(e) == compute_body_hash(github.issues[e.github_ref].body)

\* C5: with the update check on, the entry of a migrated item whose Jira
\* issue exists is a skip when the description holds no hash, a skip when
\* the hash equals the hash of the current GitHub body, and an update when
\* it differs; an issue without a hash is never scheduled for update.
C5_UpdateChecker ==
    (pc = "planned" /\ ~args.skip_update_check) =>
        \A i \in 1..Len(full_plan) :
            CheckedEntry(full_plan[i]) =>
                full_plan[i].action =
                    IF StoredHash(full_plan[i]) = NoHash THEN "skip"
                    ELSE IF StoredHash(full_plan[i]) = CurrentHash(full_plan[i])
                    THEN "skip"
                    ELSE "update"

\* a plan with the three outcomes: no hash, equal hashes, different hashes
C5_Witness ==
    /\ pc = "planned"
    /\ ~args.skip_update_check
    /\ \E i, j, k \in 1..Len(full_plan) :
          /\ CheckedEntry(full_plan[i]) /\ StoredHash(full_plan[i]) = NoHash
          /\ CheckedEntry(full_plan[j]) /\ StoredHash(full_plan[j]) # NoHash
          /\ StoredHash(full_plan[j]) = CurrentHash(full_plan[j])
          /\ CheckedEntry(full_plan[k]) /\ StoredHash(full_plan[k]) # NoHash
          /\ StoredHash(full_plan[k]) # CurrentHash(full_plan[k])

\* write i is the last create or update of its Jira issue
LastDescription(i) ==
    /\ writes[i].op \in {"issue_create", "update_issue"}
    /\ \A j \in (i + 1)..Len(writes) :
          writes[j].op \in {"issue_create", "update_issue"}
              => writes[j].key # writes[i].key

\* C6: the hash extracted from a description the tool composed and Jira
\* returned is the hash the tool embedded in it, the hash of the GitHub
\* body the description was composed from, whatever the body contains.
C6_RoundTrip ==
    \A i \in 1..Len(writes) :
        LastDescription(i) =>
            extract_hash_from_adf(jira.issues[writes[i].key].description)
                = compute_body_hash(writes[i].body)

\* the previous run ended without a remote write
PreviousRunWroteNothing == run >= 2 /\ WritesOf(run - 1) = <<>>

CallRules == Get(call.repo_config, "rules", <<>>)
Matching ==
    {i \in 1..Len(CallRules) :
        /\ "match" \in DOMAIN CallRules[i]
        /\ MatchEnd(CallRules[i].match.issue_title, call.title) >= 0}
FirstMatching == CHOOSE i \in Matching : \A j \in Matching : i <= j

\* every rule up to n has a pattern
WellFormedUpTo(n) == \A i \in 1..n : "match" \in DOMAIN CallRules[i]

\* the strip patterns of the repo: its own, else the global ones, else the
\* built-in default
GroupPatterns ==
    IF "github_title_strip" \in DOMAIN call.repo_config
    THEN as_list(call.repo_config.github_title_strip)
    ELSE IF "github_title_strip" \in DOMAIN call.global_config
    THEN as_list(call.global_config.github_title_strip)
    ELSE <<TagPattern>>

\* C8: resolve_rule is first-match in declaration order.  When some rule
\* matches at position 0 of the title, the result has the overrides of the
\* first such rule, each absent override replaced by the repo's value, and
\* the title after the matched span, left-trimmed; later matching rules do
\* not count.  When no rule matches, the result is the repo's prefix,
\* category and strip patterns and the title as it is.
C8_FirstMatch ==
    result # <<>> =>
        IF Matching # {} /\ WellFormedUpTo(FirstMatching)
        THEN LET rule == CallRules[FirstMatching]
                 e == MatchEnd(rule.match.issue_title, call.title)
             IN  /\ ~result[1].raised
                 /\ result[1].prefix =
                       IF "jira_prefix" \in DOMAIN rule THEN rule.jira_prefix
                       ELSE call.repo_config.jira_prefix
                 /\ result[1].components =
                       IF "scylla_components" \in DOMAIN rule THEN rule.scylla_components
                       ELSE call.repo_config.scylla_components
                 /\ result[1].patterns =
                       IF "github_title_strip" \in DOMAIN rule
                       THEN as_list(rule.github_title_strip)
                       ELSE GroupPatterns
                 /\ result[1].cleaned = LStrip(SubSeq(call.title, e + 1, Len(call.title)))
        ELSE (Matching = {} /\ WellFormedUpTo(Len(CallRules))) =>
                 /\ ~result[1].raised
                 /\ result[1].prefix = call.repo_config.jira_prefix
                 /\ result[1].components = call.repo_config.scylla_components
                 /\ result[1].patterns = GroupPatterns
                 /\ result[1].cleaned = call.title

\* a call with two matching rules that carry different overrides, answered
\* with the first one's prefix and a trimmed title
C8_Witness ==
    /\ result # <<>>
    /\ Cardinality(Matching) >= 2
    /\ \E j \in Matching \ {FirstMatching} :
          /\ "jira_prefix" \in DOMAIN CallRules[FirstMatching]
          /\ "jira_prefix" \in DOMAIN CallRules[j]
          /\ CallRules[j].jira_prefix # CallRules[FirstMatching].jira_prefix
          /\ "scylla_components" \notin DOMAIN CallRules[FirstMatching]
    /\ result[1].prefix = CallRules[FirstMatching].jira_prefix
    /\ result[1].cleaned = <<"x">>

\* nothing that was written is taken back by the step
NothingUndone ==
    /\ IsPrefix(writes, writes')
    /\ DOMAIN jira.issues \subseteq DOMAIN jira'.issues
    /\ jira.field.values \subseteq jira'.field.values
    /\ \A url \in DOMAIN github.issues :
          IsPrefix(github.issues[url].body, github'.issues[url].body)

\* C9: a failed remote call ends the run where it stands.  The step in
\* which a call fails leaves the process dead, after a failure no step of
\* the same run writes to Jira or GitHub, and no step removes an issue, an
\* option or a back-reference that was written before.
C9_FailFast ==
    [][/\ (~failed /\ failed') => (pc' = "crashed")
       /\ (failed /\ run' = run) => UNCHANGED <<jira, github, writes>>
       /\ NothingUndone]_vars

\* a run that died with an issue created, its GitHub back-reference not
\* written and an update still to do
C9_Witness ==
    /\ failed
    /\ pc = "crashed"
    /\ \E i \in 1..Len(writes) :
          /\ writes[i].run = run
          /\ writes[i].op = "issue_create"
          /\ writes[i].key \in DOMAIN jira.issues
          /\ detect_jira_link(github.issues[writes[i].ref].body) = NoKey
    /\ \E j \in 1..Len(plan) : plan[j].action = "update"
    /\ \A i \in 1..Len(writes) : writes[i].op # "update_issue"

\* the third pass is at a create entry whose parent is a GitHub reference
AtPendingChild ==
    /\ pc = "pass3"
    /\ NextEntry(pos, "pass3") # 0
    /\ "jira_parent_github" \in DOMAIN plan[NextEntry(pos, "pass3")]

\* C10: in the third pass a create entry whose parent is a GitHub
\* reference is created with the key created_keys holds for that reference
\* as its parent when created_keys holds one; when it holds none the entry
\* is dropped with a warning, nothing is written, and the pass goes on with
\* the entry after it.
C10_PendingParent ==
    [][AtPendingChild =>
          LET i == NextEntry(pos, "pass3")
              entry == plan[i]
              n == Len(writes)
          IN  IF entry.jira_parent_github \in DOMAIN created_keys
              THEN /\ warnings' = warnings
                   /\ failed' \/ Len(writes') > n
                   /\ (Len(writes') > n) =>
                         (/\ writes'[n + 1].op = "issue_create"
                          /\ writes'[n + 1].ref = entry.github_ref
                          /\ writes'[n + 1].parent
                                = created_keys[entry.jira_parent_github]
                          /\ jira'.issues[writes'[n + 1].key].parent
                                = created_keys[entry.jira_parent_github])
              ELSE /\ UNCHANGED <<jira, github, writes, created_keys>>
                   /\ warnings' = Append(warnings, entry.github_ref)
                   /\ ~failed'
                   /\ pc' = "pass3"
                   /\ pos' = i + 1]_vars

\* a run that dropped a child whose epic it had not created, wrote nothing
\* for it and went on to its end
C10_Witness ==
    /\ pc = "done"
    /\ warnings # <<>>
    /\ \A i \in 1..Len(writes) :
          writes[i].run = run => writes[i].ref # warnings[1]

(***************************************************************************)
(* The transcoder.                                                         *)
(***************************************************************************)

\* the text "# Title", "- [ ] todo", "**bold**"
BoldScenario ==
    <<<<"#", " ", "T", "i", "t", "l", "e">>,
      <<"-", " ", "[", " ", "]", " ", "t", "o", "d", "o">>,
      <<"*", "*", "b", "o", "l", "d", "*", "*">>>>

\* C11: the text "# Title", "- [ ] todo", "**bold**" converts to the three
\* lines "h1. Title", "* (x) todo" and "*bold*": what the bold substitution
\* wrote is not matched again by the italic substitution.
C11_BoldScenario ==
    (result # <<>> /\ call.text = BoldScenario) =>
        result[1] = <<<<"h", "1", ".", " ", "T", "i", "t", "l", "e">>,
                      <<"*", " ", "(", "x", ")", " ", "t", "o", "d", "o">>,
                      <<"*", "b", "o", "l", "d", "*">>>>

\* the fence markers among the first n lines of the text
FencesBefore(text, n) == {j \in 1..n : IsFenceLine(text[j])}

\* line i of the text is read inside a code block: an odd number of fence
\* markers stand before it
InsideAt(text, i) == Cardinality(FencesBefore(text, i - 1)) % 2 = 1

\* C12: the inside/outside flag of the transcoder toggles exactly on the lines
\* whose trimmed content starts with three backticks: a fence marker read
\* outside opens a code block, one read inside closes it, every other line
\* read inside comes out unchanged, whether or not the block is ever closed,
\* and every other line read outside is classified and substituted.
C12_FenceState ==
    result # <<>> =>
        LET text == call.text
            out == result[1]
        IN  /\ Len(out) = Len(text)
            /\ \A i \in 1..Len(text) :
                  IF IsFenceLine(text[i])
                  THEN IF InsideAt(text, i)
                       THEN out[i] = <<"{", "c", "o", "d", "e", "}">>
                       ELSE out[i] = FenceOpen(text[i])
                  ELSE IF InsideAt(text, i)
                       THEN out[i] = text[i]
                       ELSE out[i] = ConvertOutside(text[i])

\* a converted text whose code block is never closed and holds, after a first
\* inner line, a second one that would have been rewritten outside
C12_Witness ==
    /\ result # <<>>
    /\ Len(call.text) = 3
    /\ FencesBefore(call.text, 3) = {1}
    /\ ConvertOutside(call.text[3]) # call.text[3]
    /\ result[1][3] = call.text[3]

(***************************************************************************)
(* Errors while the plan is built.                                         *)
(***************************************************************************)

\* the groups scanned in repo j of the run
ScanOf(j) == scan_repo(Repos[j], github)

\* the entries build_plan's loop body gives group g of repo j
GroupPlanOf(j, g) ==
    GroupPlan(ScanOf(j)[g], config, issue_missing, jira, args.skip_update_check)

\* the run ended in the scan loop, at a repo with a group whose
\* classification raises
ClassificationRaised ==
    /\ pc = "crashed"
    /\ repo_idx \in 1..Len(Repos)
    /\ \E g \in 1..Len(ScanOf(repo_idx)) : GroupPlanOf(repo_idx, g).raised

\* C13: an error raised while one group is classified (a remote error other
\* than 404 in the update check, a rule without its match pattern) does not
\* abort the other groups: the entries of every group that classifies
\* without error are in the plan the run has built.
C13_ErrorIsolation ==
    ClassificationRaised =>
        \A j \in 1..Len(Repos) :
            \A g \in 1..Len(ScanOf(j)) :
                ~GroupPlanOf(j, g).raised
                    => IsSubseq(GroupPlanOf(j, g).plan, full_plan)

\* the items of a scanned group, the epic first: [issue, jira_key]
ItemsOf(entry) == <<[issue |-> entry.epic, jira_key |-> entry.jira_key]>> \o entry.sub_issues

\* the items of every group scanned in repo j
ItemsIn(j) ==
    LET RECURSIVE Flat(_)
        Flat(groups) == IF groups = <<>> THEN <<>>
                        ELSE ItemsOf(Head(groups)) \o Flat(Tail(groups))
    IN  Flat(ScanOf(j))

\* the item carries the key of a Jira issue that no longer exists
NotFound(it) == it.jira_key # NoKey /\ it.jira_key \notin DOMAIN jira.issues

\* classifying the item raises: its Jira issue answers an error other than
\* 404, or its rule has no match pattern
Raises(it) ==
    IF it.jira_key # NoKey
    THEN it.jira_key \in DOMAIN jira.issues /\ jira.issues[it.jira_key].status = "500"
    ELSE LET effective_config == repo_config_for_url(it.issue.url, it.issue.title, config)
         IN  /\ effective_config # <<>>
             /\ resolve_rule(it.issue.title, effective_config[1], config).raised

\* the item is given a plan entry
Planned(it) ==
    \/ it.jira_key # NoKey
    \/ repo_config_for_url(it.issue.url, it.issue.title, config) # <<>>

\* the plan build_plan gives repo j
BuildOf(j) ==
    build_plan(ScanOf(j), Repos[j], config, issue_missing, jira, args.skip_update_check)

\* C14: an item whose Jira issue no longer exists (404 on the update check)
\* gets a skip entry that says so, and classification goes on: when nothing
\* else raises in the repo the plan is built, with one entry for every item
\* of every group in scan order, and it becomes part of the full plan.
C14_NotFoundSkip ==
    (pc \in {"scan", "planned"} /\ ~args.skip_update_check) =>
        \A j \in 1..Len(Repos) :
            LET items == ItemsIn(j)
                kept == SelectSeq(items, Planned)
                built == BuildOf(j)
            IN  (\A n \in 1..Len(items) : ~Raises(items[n])) =>
                    /\ ~built.raised
                    /\ Len(built.plan) = Len(kept)
                    /\ \A n \in 1..Len(kept) :
                          /\ built.plan[n].github_ref = kept[n].issue.url
                          /\ NotFound(kept[n]) =>
                                /\ built.plan[n].action = "skip"
                                /\ built.plan[n].reason = "Jira issue not found"
                                /\ built.plan[n].jira_key = kept[n].jira_key
                    /\ j < repo_idx => IsSubseq(built.plan, full_plan)

\* a complete plan in which the skip entry of an epic whose Jira issue is
\* gone is followed by the entry of one of its children and by the entry of
\* a later group
C14_Witness ==
    /\ pc = "planned"
    /\ ~args.skip_update_check
    /\ \E a, b, c \in 1..Len(full_plan) :
          /\ a < b /\ b < c
          /\ full_plan[a].action = "skip"
          /\ full_plan[a].reason = "Jira issue not found"
          /\ full_plan[a].github_ref = U1
          /\ full_plan[b].github_ref = U2
          /\ full_plan[c].github_ref = U3

(***************************************************************************)
(* The executor's state.                                                   *)
(***************************************************************************)

\* execute_plan is running
Executing == pc \in {"pass1", "pass2", "pass3", "pass4"}

\* C15: while the plan is executed no plan entry changes, and the map from
\* source reference to created key only grows: no key leaves it and no
\* key's value is replaced.
C15_EntriesFrozen ==
    [][Executing =>
          /\ plan' = plan
          /\ \A ref \in DOMAIN created_keys :
                /\ ref \in DOMAIN created_keys'
                /\ created_keys'[ref] = created_keys[ref]]_vars

(***************************************************************************)
(* Plan first, execution after.                                            *)
(***************************************************************************)

\* every selected repo has been scanned and its entries built
PlanComplete == repo_idx = Len(Repos) + 1

\* the plan has been printed
PlanShown == \E i \in 1..Len(stdout) : stdout[i] = plan_for_display(full_plan)

\* C16: in any run the plan of all selected groups is computed and shown
\* before execution is attempted: when the run has made a remote write, the
\* entries of the last group had been built and the plan had been output.
C16_PlanBeforeWrites ==
    WritesOf(run) # <<>> => (PlanComplete /\ PlanShown)

(***************************************************************************)
(* The option pass.                                                        *)
(***************************************************************************)

\* the values of the options the pass has added, in order
Adds == [i \in 1..Len(writes) |-> writes[i].key]

\* the values among the first n entries that are to be added: those with no
\* option equal ignoring case in Jira before the pass or added for an
\* earlier entry
RECURSIVE ExpectedAdds(_)
ExpectedAdds(n) ==
    IF n = 0 THEN <<>>
    ELSE LET before == ExpectedAdds(n - 1)
             value == FieldEntries[n].value
             known == {Lower(o) : o \in call.options}
                      \cup {Lower(before[i]) : i \in 1..Len(before)}
         IN  IF Lower(value) \in known THEN before ELSE Append(before, value)

\* C17: in the option pass an option is added exactly when no option equal to
\* it ignoring case was in Jira before the pass or was added earlier in the
\* pass, so no two adds are equal ignoring case.
C17_OptionPass ==
    /\ pc = "pass1_loop" => Adds = ExpectedAdds(pos - 1)
    /\ pc = "pass2" => Adds = ExpectedAdds(Len(FieldEntries))
    /\ IsPrefix(Adds, ExpectedAdds(Len(FieldEntries)))
    /\ \A i, j \in 1..Len(Adds) : i < j => Lower(Adds[i]) # Lower(Adds[j])
    /\ jira.field.values = call.options \cup {Adds[i] : i \in 1..Len(Adds)}

\* a finished pass of three entries: the first added, the second equal to it
\* ignoring case and left out, the third equal ignoring case to an option
\* Jira had and left out
C17_Witness ==
    /\ pc = "pass2"
    /\ Len(FieldEntries) = 3
    /\ Len(Adds) = 1
    /\ Adds[1] = FieldEntries[1].value
    /\ FieldEntries[2].value # FieldEntries[1].value
    /\ Lower(FieldEntries[2].value) = Lower(FieldEntries[1].value)
    /\ FieldEntries[3].value \notin call.options
    /\ Lower(FieldEntries[3].value) \in {Lower(o) : o \in call.options}

(***************************************************************************)
(* The execution gate.                                                     *)
(***************************************************************************)

\* --execute-all or --execute was given
ExecutionRequested == args.execute_all \/ args.execute # ""

C19_EmptyCategory ==
    \A i \in 1..Len(full_plan) :
        /\ Needs(full_plan[i], "") => full_plan[i].action # "fail"
        /\ IsFieldEntry(full_plan[i]) => full_plan[i].value # ""

(***************************************************************************)
(* The fingerprint.                                                        *)
(***************************************************************************)

\* the last line of a composed description
Footer(description) == description[Len(description)]

\* the body as text: an absent body reads as the empty string
RawText(body) == IF body = None THEN EmptyStr ELSE body

\* C20: the fingerprint in a composed description is the digest of the raw
\* source body, never of the converted text: two bodies that differ as raw
\* text get different footers even when they convert to the same wiki text,
\* an absent body gets the digest of the empty string, and the digest
\* written is the one the update checker computes for the same body.
C20_Fingerprint ==
    result # <<>> =>
        LET r == result[1]
        IN  /\ Footer(r.description) = HashLine(Sha256(RawText(call.github_body)))
            /\ (RawText(call.github_body) # RawText(call.other_body))
                  <=> (Footer(r.description) # Footer(r.other_description))
            /\ Footer(r.description) = HashLine(r.current_hash)

\* two descriptions composed from the bodies "- x" and "* x": the same
\* converted text above different footers
C20_Witness ==
    /\ result # <<>>
    /\ call.github_body = <<Txt("- x")>>
    /\ call.other_body = <<Txt("* x")>>
    /\ SubSeq(result[1].description, 1, Len(result[1].description) - 1)
          = SubSeq(result[1].other_description, 1,
                   Len(result[1].other_description) - 1)
    /\ Footer(result[1].description) # Footer(result[1].other_description)

(***************************************************************************)
(* Children.                                                               *)
(***************************************************************************)

\* the child is given an entry by the rule of top-level items: it carries a
\* Jira key, or it is open and its repo is configured
ChildKept(sub_entry) ==
    \/ sub_entry.jira_key # NoKey
    \/ /\ sub_entry.issue.state = "OPEN"
       /\ repo_config_for_url(sub_entry.issue.url, sub_entry.issue.title, config) # <<>>

\* C21: children are classified like top-level items: a child with a Jira
\* key gets a skip or an update entry, a closed child without a key gets no
\* entry, and only an open child without a key gets a create or a fail
\* entry.
C21_ChildClassification ==
    pc = "planned" =>
        \A j \in 1..Len(Repos) :
            \A g \in 1..Len(ScanOf(j)) :
                LET kept == SelectSeq(ScanOf(j)[g].sub_issues, ChildKept)
                    entries == Tail(GroupPlanOf(j, g).plan)
                IN  /\ Len(entries) = Len(kept)
                    /\ \A n \in 1..Len(kept) :
                          /\ entries[n].github_ref = kept[n].issue.url
                          /\ entries[n].action
                                \in (IF kept[n].jira_key # NoKey
                                     THEN {"skip", "update"}
                                     ELSE {"create", "fail"})

(***************************************************************************)
(* The update pass.                                                        *)
(***************************************************************************)

\* the step ends with an update call logged
UpdateCalled ==
    /\ Len(writes') > Len(writes)
    /\ writes'[Len(writes')].op = "update_issue"

\* the update calls of the run
UpdatesOf(r) == SelectSeq(WritesOf(r), LAMBDA w : w.op = "update_issue")

\* C22: a Jira issue is written by an update call only for a plan entry
\* whose action is update: the call is made in the fourth pass for the
\* update entry the pass has reached, it sets the description, composed from
\* the entry's body, and changes nothing else in Jira or GitHub; skip,
\* create and fail entries cause no update call.
C22_UpdatePass ==
    [][UpdateCalled =>
          LET w == writes'[Len(writes')]
              entry == plan[pos' - 1]
          IN  /\ pc = "pass4"
              /\ Len(writes') = Len(writes) + 1
              /\ pos' - 1 \in pos..Len(plan)
              /\ \A i \in pos..(pos' - 2) : plan[i].action # "update"
              /\ entry.action = "update"
              /\ entry.jira_key = w.key
              /\ entry.github_ref = w.ref
              /\ w.key \in DOMAIN jira.issues
              /\ jira'.issues[w.key].description
                    = JiraRender(build_jira_description(entry.github_body,
                                                        entry.github_ref))
              /\ jira' = [jira EXCEPT !.issues[w.key].description =
                                          jira'.issues[w.key].description]
              /\ github' = github
              /\ plan' = plan]_vars

\* a finished run whose plan held a skip, a create and an update entry and
\* which made one update call for each update entry
C22_Witness ==
    /\ pc = "done"
    /\ UpdatesOf(run) # <<>>
    /\ Len(UpdatesOf(run)) = Len(SelectSeq(plan, LAMBDA e : e.action = "update"))
    /\ \E i, j \in 1..Len(plan) :
          /\ plan[i].action = "skip"
          /\ plan[j].action = "create"

(***************************************************************************)
(* One Jira issue per GitHub item.                                         *)
(***************************************************************************)

\* the issue creations of the run
CreatesOf(r) == SelectSeq(WritesOf(r), LAMBDA w : w.op = "issue_create")

\* C23: in an execution without a failure no GitHub item is submitted for
\* creation twice, whatever tree was fetched, also when an item returned as
\* a top-level epic is returned as a child of another epic too.
C23_CreatedOnce ==
    ~failed =>
        \A i, j \in 1..Len(CreatesOf(run)) :
            i < j => CreatesOf(run)[i].ref # CreatesOf(run)[j].ref

(***************************************************************************)
(* Pending parents and the type mapping.                                   *)
(***************************************************************************)

\* the step ends with an issue creation logged
CreateCalled ==
    \E n \in (Len(writes) + 1)..Len(writes') : writes'[n].op = "issue_create"

\* C24: whatever the type mapping and the default type, also when a
\* child's type is mapped to "Epic", a create entry that carries a pending
\* parent reference is never created without a parent: when it is created
\* its parent has been created and the key recorded for the reference is
\* sent as the parent.
C24_PendingNeverOrphan ==
    [][(CreateCalled /\ "jira_parent_github" \in DOMAIN plan[pos' - 1]) =>
          LET entry == plan[pos' - 1]
              w == writes'[Len(writes) + 1]
          IN  /\ entry.jira_parent_github \in DOMAIN created_keys
              /\ w.parent = created_keys[entry.jira_parent_github]
              /\ jira'.issues[w.key].parent = w.parent]_vars

(***************************************************************************)
(* Convergence across runs.                                                *)
(***************************************************************************)

\* the entries the plan holds for the GitHub item ref
EntriesFor(ref) == SelectSeq(full_plan, LAMBDA e : Get(e, "github_ref", "") = ref)

\* C25: after an execution without a failure, with GitHub edited by the
\* tool alone, the next run with the update check enabled gives every item
\* created in that execution a skip entry whose hash matches, never a
\* create and never an update entry, although the Jira link line was
\* appended to the GitHub body after the hash was embedded.
C25_Convergence ==
    (run >= 2 /\ pc = "planned" /\ ~args.skip_update_check) =>
        \A n \in 1..Len(CreatesOf(run - 1)) :
            LET entries == EntriesFor(CreatesOf(run - 1)[n].ref)
            IN  /\ entries # <<>>
                /\ \A i \in 1..Len(entries) :
                      /\ entries[i].action = "skip"
                      /\ entries[i].reason = "Already migrated (hash matches)"

====
